---- MODULE Spec2Model ----
(***************************************************************************)
(* The Gobstones bytecode compiler (class Compiler), the symbol table it   *)
(* queries, and the stack discipline of the virtual-machine instructions   *)
(* it emits.                                                               *)
(*                                                                         *)
(* A compiler object is a record; its methods are operators that take the  *)
(* object (self) and return the object after the call.  An exception is    *)
(* the field `thrown` of the object: once it is set, no later step of the  *)
(* same call has any effect, which is how a JavaScript throw unwinds the   *)
(* call while leaving the instructions already produced in the Code.       *)
(***************************************************************************)
EXTENDS Integers, Sequences, FiniteSets, TLC

VARIABLES
    heap,       \* the Code objects: heap[ref] is the instruction list of Code ref
    compiler,   \* the Compiler object: _symtable, _code (a ref), _nextLabel, _nextVariable
    calls,      \* the invocations of compile so far, with what each returned or raised
    vm,         \* the virtual machine's frame: the Code it runs, ip, local stack depth
    table,      \* a SymbolTable object that definitions are declared in
    probe,      \* a call of a function of value.js: its arguments and what it gave
    machine     \* the virtual machine's frame with its values: ip, stack, local names

vars == <<heap, compiler, calls, vm, table, probe, machine>>

(***************************************************************************)
(* Bounds of the model.                                                    *)
(***************************************************************************)
\* compile is invoked at most this many times in one behaviour
MaxCalls == 2
\* the depth the stack of the virtual machine may reach
MaxStack == 6

(***************************************************************************)
(* Positions, tokens and the absent value.                                 *)
(***************************************************************************)
Null == [tag |-> "null"]
NoError == ""
Token(v) == [value |-> v]

(***************************************************************************)
(* Types (value.js) as far as the compiler builds them.                    *)
(***************************************************************************)
TypeAny == [tag |-> "Any"]
TypeInteger == [tag |-> "Integer"]
TypeTuple(componentTypes) == [tag |-> "Tuple", componentTypes |-> componentTypes]
TypeList(contentType) == [tag |-> "List", contentType |-> contentType]
TypeStructure(typeName, cases) == [tag |-> "Structure", typeName |-> typeName, cases |-> cases]
\* the JavaScript object literal {}
EmptyObject == <<>>

(***************************************************************************)
(* Instructions.  Each is created without positions; _produce adds them.   *)
(***************************************************************************)
\* number is the literal as the AST carries it, as text
IPushInteger(number) ==
    [op |-> "PushInteger", number |-> number]
IPushString(string) ==
    [op |-> "PushString", string |-> string]
IPushVariable(variableName) ==
    [op |-> "PushVariable", variableName |-> variableName]
ISetVariable(variableName) ==
    [op |-> "SetVariable", variableName |-> variableName]
IUnsetVariable(variableName) ==
    [op |-> "UnsetVariable", variableName |-> variableName]
ILabel(label) ==
    [op |-> "Label", label |-> label]
IJump(targetLabel) ==
    [op |-> "Jump", targetLabel |-> targetLabel]
IJumpIfFalse(targetLabel) ==
    [op |-> "JumpIfFalse", targetLabel |-> targetLabel]
IJumpIfStructure(constructorName, targetLabel) ==
    [op |-> "JumpIfStructure", constructorName |-> constructorName,
     targetLabel |-> targetLabel]
IJumpIfTuple(size, targetLabel) ==
    [op |-> "JumpIfTuple", size |-> size, targetLabel |-> targetLabel]
IReturn == [op |-> "Return"]
IMakeTuple(size) ==
    [op |-> "MakeTuple", size |-> size]
IMakeList(size) ==
    [op |-> "MakeList", size |-> size]
IMakeStructure(typeName, constructorName, fieldNames) ==
    [op |-> "MakeStructure", typeName |-> typeName, constructorName |-> constructorName,
     fieldNames |-> fieldNames]
IReadTupleComponent(index) ==
    [op |-> "ReadTupleComponent", index |-> index]
IReadStructureField(fieldName) ==
    [op |-> "ReadStructureField", fieldName |-> fieldName]
IDup == [op |-> "Dup"]
IPop == [op |-> "Pop"]
IPrimitiveCall(primitiveName, nargs) ==
    [op |-> "PrimitiveCall", primitiveName |-> primitiveName, nargs |-> nargs]
ITypeCheck(type) ==
    [op |-> "TypeCheck", type |-> type]

\* the instructions that carry a jump target
JumpOps == {"Jump", "JumpIfFalse", "JumpIfStructure", "JumpIfTuple"}

(***************************************************************************)
(* Collaborators whose code is outside the compiler: the message catalog   *)
(* and the catalog of runtime primitives.                                  *)
(***************************************************************************)
i18n(key) ==
    CASE key = "TYPE:Bool" -> "Bool"
      [] key = "CONS:TIMEOUT" -> "TIMEOUT"
      [] OTHER -> key

\* primitive procedures return no value, primitive functions return one
PrimitiveProcedures == {"PutStone", "Move"}
PrimitiveFunctions ==
    {">", "<", "+", "-", "_unsafeListLength", "_unsafeListNth", "numStones"}
RuntimePrimitives_isProcedure(name) == name \in PrimitiveProcedures
RuntimePrimitives_isFunction(name) == name \in PrimitiveFunctions

(***************************************************************************)
(* AST nodes (ast.js), with the fields the compiler reads.                 *)
(***************************************************************************)
Main(at, definitions) ==
    [tag |-> "N_Main", definitions |-> definitions, startPos |-> at[1], endPos |-> at[2]]
DefProgram(at, body) ==
    [tag |-> "N_DefProgram", body |-> body, startPos |-> at[1], endPos |-> at[2]]
DefInteractiveProgram(at, branches) ==
    [tag |-> "N_DefInteractiveProgram", branches |-> branches,
     startPos |-> at[1], endPos |-> at[2]]
DefProcedure(at, name, body) ==
    [tag |-> "N_DefProcedure", name |-> Token(name), body |-> body,
     startPos |-> at[1], endPos |-> at[2]]
DefFunction(at, name, body) ==
    [tag |-> "N_DefFunction", name |-> Token(name), body |-> body,
     startPos |-> at[1], endPos |-> at[2]]
DefType(at, typeName, constructorDeclarations) ==
    [tag |-> "N_DefType", typeName |-> Token(typeName),
     constructorDeclarations |-> constructorDeclarations,
     startPos |-> at[1], endPos |-> at[2]]
ConstructorDeclaration(at, constructorName, fieldNames) ==
    [tag |-> "N_ConstructorDeclaration", constructorName |-> Token(constructorName),
     fieldNames |-> [i \in 1..Len(fieldNames) |-> Token(fieldNames[i])],
     startPos |-> at[1], endPos |-> at[2]]

StmtBlock(at, statements) ==
    [tag |-> "N_StmtBlock", statements |-> statements, startPos |-> at[1], endPos |-> at[2]]
StmtReturn(at, result) ==
    [tag |-> "N_StmtReturn", result |-> result, startPos |-> at[1], endPos |-> at[2]]
StmtIf(at, condition, thenBlock, elseBlock) ==
    [tag |-> "N_StmtIf", condition |-> condition, thenBlock |-> thenBlock,
     elseBlock |-> elseBlock, startPos |-> at[1], endPos |-> at[2]]
StmtRepeat(at, times, body) ==
    [tag |-> "N_StmtRepeat", times |-> times, body |-> body,
     startPos |-> at[1], endPos |-> at[2]]
StmtForeach(at, index, range, body) ==
    [tag |-> "N_StmtForeach", index |-> Token(index), range |-> range, body |-> body,
     startPos |-> at[1], endPos |-> at[2]]
StmtWhile(at, condition, body) ==
    [tag |-> "N_StmtWhile", condition |-> condition, body |-> body,
     startPos |-> at[1], endPos |-> at[2]]
StmtSwitch(at, subject, branches) ==
    [tag |-> "N_StmtSwitch", subject |-> subject, branches |-> branches,
     startPos |-> at[1], endPos |-> at[2]]
SwitchBranch(at, pattern, body) ==
    [tag |-> "N_SwitchBranch", pattern |-> pattern, body |-> body,
     startPos |-> at[1], endPos |-> at[2]]
StmtAssignVariable(at, variable, value) ==
    [tag |-> "N_StmtAssignVariable", variable |-> Token(variable), value |-> value,
     startPos |-> at[1], endPos |-> at[2]]
StmtAssignTuple(at, variables, value) ==
    [tag |-> "N_StmtAssignTuple",
     variables |-> [i \in 1..Len(variables) |-> Token(variables[i])], value |-> value,
     startPos |-> at[1], endPos |-> at[2]]
StmtProcedureCall(at, procedureName, args) ==
    [tag |-> "N_StmtProcedureCall", procedureName |-> Token(procedureName), args |-> args,
     startPos |-> at[1], endPos |-> at[2]]

PatternWildcard(at) ==
    [tag |-> "N_PatternWildcard", startPos |-> at[1], endPos |-> at[2]]
PatternStructure(at, constructorName, parameters) ==
    [tag |-> "N_PatternStructure", constructorName |-> Token(constructorName),
     parameters |-> [i \in 1..Len(parameters) |-> Token(parameters[i])],
     startPos |-> at[1], endPos |-> at[2]]
PatternTuple(at, parameters) ==
    [tag |-> "N_PatternTuple",
     parameters |-> [i \in 1..Len(parameters) |-> Token(parameters[i])],
     startPos |-> at[1], endPos |-> at[2]]
PatternTimeout(at) ==
    [tag |-> "N_PatternTimeout", startPos |-> at[1], endPos |-> at[2]]

ExprVariable(at, variableName) ==
    [tag |-> "N_ExprVariable", variableName |-> Token(variableName),
     startPos |-> at[1], endPos |-> at[2]]
ExprConstantNumber(at, number) ==
    [tag |-> "N_ExprConstantNumber", number |-> Token(number),
     startPos |-> at[1], endPos |-> at[2]]
ExprConstantString(at, string) ==
    [tag |-> "N_ExprConstantString", string |-> Token(string),
     startPos |-> at[1], endPos |-> at[2]]
ExprList(at, elements) ==
    [tag |-> "N_ExprList", elements |-> elements, startPos |-> at[1], endPos |-> at[2]]
ExprRange(at, first, second, last) ==
    [tag |-> "N_ExprRange", first |-> first, second |-> second, last |-> last,
     startPos |-> at[1], endPos |-> at[2]]
ExprTuple(at, elements) ==
    [tag |-> "N_ExprTuple", elements |-> elements, startPos |-> at[1], endPos |-> at[2]]
ExprStructure(at, constructorName, fieldBindings) ==
    [tag |-> "N_ExprStructure", constructorName |-> Token(constructorName),
     fieldBindings |-> fieldBindings, startPos |-> at[1], endPos |-> at[2]]
ExprStructureUpdate(at, constructorName, original, fieldBindings) ==
    [tag |-> "N_ExprStructureUpdate", constructorName |-> Token(constructorName),
     original |-> original, fieldBindings |-> fieldBindings,
     startPos |-> at[1], endPos |-> at[2]]
ExprFunctionCall(at, functionName, args) ==
    [tag |-> "N_ExprFunctionCall", functionName |-> Token(functionName), args |-> args,
     startPos |-> at[1], endPos |-> at[2]]
FieldValue(at, fieldName, value) ==
    [tag |-> "N_FieldValue", fieldName |-> Token(fieldName), value |-> value,
     startPos |-> at[1], endPos |-> at[2]]

(***************************************************************************)
(* The symbol table object (class SymbolTable): one field per table of the *)
(* class.  A JavaScript object used as a dictionary is a function whose    *)
(* DOMAIN is the set of its keys.                                          *)
(***************************************************************************)
SymbolTable_constructorType(symtable, name) == symtable._constructorType[name]
SymbolTable_constructorFields(symtable, name) == symtable._constructorFields[name]
\* the methods class SymbolTable defines; a call of any other name on a symbol
\* table is a call of undefined, which raises a TypeError
SymbolTableMethods ==
    {"procedureDefinition", "functionDefinition", "typeDefinition", "typeConstructors",
     "constructorDeclaration", "constructorType", "constructorFields", "fieldDescriptor",
     "defProgram", "defInteractiveProgram", "defProcedure", "defFunction", "defType",
     "_declareConstructor", "_declareField"}

(***************************************************************************)
(* Helpers of the compiler.                                                *)
(*                                                                         *)
(* Where a method calls one that may raise, the model tests `thrown` after *)
(* the call and returns at once, as the exception would make it do.        *)
(***************************************************************************)
\* a throw statement: the call unwinds, what was produced so far stays
Throw(self, message) ==
    IF self.thrown # NoError THEN self ELSE [self EXCEPT !.thrown = message]

\* the statements after a call: they run on the object the call left, unless
\* the call raised, and then the object is left as it was when it raised
Try(self, rest(_)) == IF self.thrown # NoError THEN self ELSE rest(self)

\* let name = value; the statements after it
With(value, rest(_)) == rest(value)

\* Code.produce: the instruction is appended to the list
Code_produce(instructions, instruction) == Append(instructions, instruction)

_produce(self, startPos, endPos, instruction) ==
    IF self.thrown # NoError THEN self
    ELSE [self EXCEPT !._code =
            Code_produce(@, instruction @@ [startPos |-> startPos, endPos |-> endPos])]

\* _produce of each instruction of the list, in order, with the same positions
_produceList(self, startPos, endPos, instructions) ==
    IF self.thrown # NoError THEN self
    ELSE [self EXCEPT !._code = @ \o
            [i \in 1..Len(instructions) |->
                instructions[i] @@ [startPos |-> startPos, endPos |-> endPos]]]

\* the name _freshLabel returns, and the compiler after it
LabelName(n) == "_l" \o ToString(n)
\* (_freshLabel with the increment of _nextLabel left out)
_freshLabelNoIncrement(self) == self
_freshLabel(self) ==
    IF self.thrown # NoError THEN self ELSE [self EXCEPT !._nextLabel = @ + 1]

\* the name _freshVariable returns, and the compiler after it
\* (the name counted from 1)
VariableNameFromOne(n) == "_v" \o ToString(n + 1)
VariableName(n) == "_v" \o ToString(n)
\* (_freshVariable with the increment of _nextVariable left out)
_freshVariableNoIncrement(self) == self
_freshVariable(self) ==
    IF self.thrown # NoError THEN self ELSE [self EXCEPT !._nextVariable = @ + 1]

\* a list of n copies of TypeAny (the loops that fill `anys`)
RECURSIVE Anys(_)
Anys(n) == IF n = 0 THEN <<>> ELSE Append(Anys(n - 1), TypeAny)

\* bookkeeping of the model, not of the compiler: the part of the Code that one
\* call of _compileStatement or _compileExpression produced, when it returned
Mark(before, after, kind, node) ==
    IF after.thrown # NoError THEN after
    ELSE [after EXCEPT !.marks = Append(@,
            [kind |-> kind, tag |-> node.tag, node |-> node,
             from |-> Len(before._code) + 1, to |-> Len(after._code) + 1])]

(***************************************************************************)
(* Expressions.                                                            *)
(***************************************************************************)
RECURSIVE _compileExpression(_, _)
RECURSIVE _compileExpressions(_, _)
RECURSIVE _compileFieldBindings(_, _)

_compileExprVariable(self, expression) ==
    _produce(self, expression.startPos, expression.endPos,
             IPushVariable(expression.variableName.value))

_compileExprConstantNumber(self, expression) ==
    _produce(self, expression.startPos, expression.endPos,
             IPushInteger(expression.number.value))

_compileExprConstantString(self, expression) ==
    _produce(self, expression.startPos, expression.endPos,
             IPushString(expression.string.value))

\* for (let element of elements) this._compileExpression(element)
\* (the loop from the last element to the first)
RECURSIVE _compileExpressionsLastFirst(_, _)
_compileExpressionsLastFirst(self, elements) ==
    IF elements = <<>> THEN self
    ELSE Try(_compileExpressionsLastFirst(self, Tail(elements)), LAMBDA s1 :
             _compileExpression(s1, Head(elements)))
_compileExpressions(self, elements) ==
    IF elements = <<>> THEN self
    ELSE Try(_compileExpression(self, Head(elements)), LAMBDA s1 :
             _compileExpressions(s1, Tail(elements)))

_compileExprList(self, expression) ==
    Try(_compileExpressions(self, expression.elements), LAMBDA s1 :
        _produce(s1, expression.startPos, expression.endPos,
                 IMakeList(Len(expression.elements))))

_compileExprTuple(self, expression) ==
    Try(_compileExpressions(self, expression.elements), LAMBDA s1 :
        _produce(s1, expression.startPos, expression.endPos,
                 IMakeTuple(Len(expression.elements))))

\* for (let fieldBinding of fieldBindings) this._compileExpression(fieldBinding.value)
_compileFieldBindings(self, fieldBindings) ==
    IF fieldBindings = <<>> THEN self
    ELSE Try(_compileExpression(self, Head(fieldBindings).value), LAMBDA s1 :
             _compileFieldBindings(s1, Tail(fieldBindings)))

_compileExprStructure(self, expression) ==
    LET fieldNames == [i \in 1..Len(expression.fieldBindings) |->
                          expression.fieldBindings[i].fieldName.value]
        constructorName == expression.constructorName.value
    IN  Try(_compileFieldBindings(self, expression.fieldBindings), LAMBDA s1 :
            IF constructorName \notin DOMAIN s1._symtable._constructorType
            THEN Throw(s1, "Undefined constructor.")
            ELSE _produce(s1, expression.startPos, expression.endPos,
                     IMakeStructure(
                         SymbolTable_constructorType(s1._symtable, constructorName),
                         constructorName, fieldNames)))

_compileExprFunctionCallPrimitive(self, expression) ==
    _produce(self, expression.startPos, expression.endPos,
             IPrimitiveCall(expression.functionName.value, Len(expression.args)))

\* this._symtable.isFunction and this._symtable.isField are not methods of class
\* SymbolTable: the first of them that is called raises a TypeError
_compileExprFunctionCall(self, expression) ==
    LET functionName == expression.functionName.value
    IN  IF functionName = "&&" \/ functionName = "||"
        THEN Throw(self, "short-circuiting not implemented")
        ELSE Try(_compileExpressions(self, expression.args), LAMBDA s1 :
                 IF RuntimePrimitives_isFunction(functionName)
                 THEN _compileExprFunctionCallPrimitive(s1, expression)
                 ELSE IF "isFunction" \notin SymbolTableMethods
                 THEN Throw(s1, "TypeError: this._symtable.isFunction is not a function")
                 ELSE IF functionName \in DOMAIN s1._symtable._functions
                 THEN Throw(s1, "calling a user-defined function not implemented")
                 ELSE IF "isField" \notin SymbolTableMethods
                 THEN Throw(s1, "TypeError: this._symtable.isField is not a function")
                 ELSE IF functionName \in DOMAIN s1._symtable._fields
                 THEN Throw(s1, "accessing a field not implemented")
                 ELSE Throw(s1, "Compiler: " \o functionName \o " is an undefined function."))

_compileExpression(self, expression) ==
    Mark(self,
         CASE expression.tag = "N_ExprVariable" -> _compileExprVariable(self, expression)
           [] expression.tag = "N_ExprConstantNumber" ->
                 _compileExprConstantNumber(self, expression)
           [] expression.tag = "N_ExprConstantString" ->
                 _compileExprConstantString(self, expression)
           [] expression.tag = "N_ExprList" -> _compileExprList(self, expression)
           [] expression.tag = "N_ExprRange" -> self            \* TODO; break
           [] expression.tag = "N_ExprTuple" -> _compileExprTuple(self, expression)
           [] expression.tag = "N_ExprStructure" -> _compileExprStructure(self, expression)
           [] expression.tag = "N_ExprStructureUpdate" -> self  \* TODO; break
           [] expression.tag = "N_ExprFunctionCall" ->
                 _compileExprFunctionCall(self, expression)
           [] OTHER ->
                 Throw(self, "Compiler: Expression not implemented: " \o expression.tag),
         "expression", expression)

(***************************************************************************)
(* Patterns: check, bind, unbind.                                          *)
(***************************************************************************)
_compilePatternCheckWildcard(self, pattern, targetLabel) ==
    _produce(self, pattern.startPos, pattern.endPos, IJump(targetLabel))

_compilePatternCheckStructure(self, pattern, targetLabel) ==
    LET constructorName == pattern.constructorName.value
    IN  IF constructorName \notin DOMAIN self._symtable._constructorType
        THEN Throw(self, "Undefined constructor.")
        ELSE LET typeName == SymbolTable_constructorType(self._symtable, constructorName)
                 expectedType == TypeStructure(typeName, EmptyObject)
                 s1 == _produce(self, pattern.startPos, pattern.endPos,
                                ITypeCheck(expectedType))
             IN  _produce(s1, pattern.startPos, pattern.endPos,
                          IJumpIfStructure(constructorName, targetLabel))

\* (_compilePatternCheckTuple with the TypeCheck left out)
_compilePatternCheckTupleUnchecked(self, pattern, targetLabel) ==
    _produce(self, pattern.startPos, pattern.endPos,
             IJumpIfTuple(Len(pattern.parameters), targetLabel))
_compilePatternCheckTuple(self, pattern, targetLabel) ==
    LET expectedType == TypeTuple(Anys(Len(pattern.parameters)))
        s1 == _produce(self, pattern.startPos, pattern.endPos, ITypeCheck(expectedType))
    IN  _produce(s1, pattern.startPos, pattern.endPos,
                 IJumpIfTuple(Len(pattern.parameters), targetLabel))

_compilePatternCheckTimeout(self, pattern, targetLabel) ==
    _produce(self, pattern.startPos, pattern.endPos,
             IJumpIfStructure(i18n("CONS:TIMEOUT"), targetLabel))

_compilePatternCheck(self, pattern, targetLabel) ==
    CASE pattern.tag = "N_PatternWildcard" ->
            _compilePatternCheckWildcard(self, pattern, targetLabel)
      [] pattern.tag = "N_PatternStructure" ->
            _compilePatternCheckStructure(self, pattern, targetLabel)
      [] pattern.tag = "N_PatternTuple" ->
            _compilePatternCheckTuple(self, pattern, targetLabel)
      [] pattern.tag = "N_PatternTimeout" ->
            _compilePatternCheckTimeout(self, pattern, targetLabel)
      [] OTHER -> Throw(self, "Compiler: Pattern check not implemented: " \o pattern.tag)

\* the loop of _compilePatternBindStructure, at (1-based) index i; reading
\* parameter.value of a parameter the pattern does not have raises a TypeError
RECURSIVE _compilePatternBindStructureFrom(_, _, _, _)
_compilePatternBindStructureFrom(self, pattern, fieldNames, i) ==
    IF i > Len(fieldNames) THEN self
    ELSE IF i > Len(pattern.parameters)
    THEN Throw(self, "TypeError: Cannot read property 'value' of undefined")
    ELSE _compilePatternBindStructureFrom(
            _produceList(self, pattern.startPos, pattern.endPos,
                <<IReadStructureField(fieldNames[i]),
                  ISetVariable(pattern.parameters[i].value)>>),
            pattern, fieldNames, i + 1)

_compilePatternBindStructure(self, pattern) ==
    IF Len(pattern.parameters) = 0 THEN self
    ELSE LET constructorName == pattern.constructorName.value
         IN  IF constructorName \notin DOMAIN self._symtable._constructorFields
             THEN Throw(self, "Undefined constructor.")
             ELSE _compilePatternBindStructureFrom(self, pattern,
                     SymbolTable_constructorFields(self._symtable, constructorName), 1)

\* the loop of _compilePatternBindTuple, at (1-based) position i: the component
\* index of the instruction is the 0-based i - 1
RECURSIVE _compilePatternBindTupleFrom(_, _, _)
_compilePatternBindTupleFrom(self, pattern, i) ==
    IF i > Len(pattern.parameters) THEN self
    ELSE _compilePatternBindTupleFrom(
            _produceList(self, pattern.startPos, pattern.endPos,
                <<IReadTupleComponent(i - 1), ISetVariable(pattern.parameters[i].value)>>),
            pattern, i + 1)

\* (_compilePatternBindTuple with the first parameter left out)
_compilePatternBindTupleFromSecond(self, pattern) ==
    _compilePatternBindTupleFrom(self, pattern, 2)
_compilePatternBindTuple(self, pattern) == _compilePatternBindTupleFrom(self, pattern, 1)

_compilePatternBind(self, pattern) ==
    CASE pattern.tag = "N_PatternWildcard" -> self
      [] pattern.tag = "N_PatternStructure" -> _compilePatternBindStructure(self, pattern)
      [] pattern.tag = "N_PatternTuple" -> _compilePatternBindTuple(self, pattern)
      [] pattern.tag = "N_PatternTimeout" -> self
      [] OTHER -> Throw(self, "Compiler: Pattern binding not implemented: " \o pattern.tag)

\* for (let parameter of parameters) produce UnsetVariable(parameter.value)
RECURSIVE _unsetParameters(_, _, _)
_unsetParameters(self, pattern, parameters) ==
    IF parameters = <<>> THEN self
    ELSE _unsetParameters(
            _produceList(self, pattern.startPos, pattern.endPos,
                         <<IUnsetVariable(Head(parameters).value)>>),
            pattern, Tail(parameters))

_compilePatternUnbindStructure(self, pattern) ==
    _unsetParameters(self, pattern, pattern.parameters)

_compilePatternUnbindTuple(self, pattern) ==
    _unsetParameters(self, pattern, pattern.parameters)

_compilePatternUnbind(self, pattern) ==
    CASE pattern.tag = "N_PatternWildcard" -> self
      [] pattern.tag = "N_PatternStructure" -> _compilePatternUnbindStructure(self, pattern)
      [] pattern.tag = "N_PatternTuple" -> _compilePatternUnbindTuple(self, pattern)
      [] pattern.tag = "N_PatternTimeout" -> self
      [] OTHER -> Throw(self, "Compiler: Pattern unbinding not implemented: " \o pattern.tag)

(***************************************************************************)
(* Statements.                                                             *)
(***************************************************************************)
RECURSIVE _compileStatement(_, _)
RECURSIVE _compileStatements(_, _)
RECURSIVE _compileSwitchChecks(_, _, _)
RECURSIVE _compileSwitchBranches(_, _, _, _, _)

\* for (let statement of block.statements) this._compileStatement(statement)
_compileStatements(self, statements) ==
    IF statements = <<>> THEN self
    ELSE Try(_compileStatement(self, Head(statements)), LAMBDA s1 :
             _compileStatements(s1, Tail(statements)))

_compileStmtBlock(self, block) == _compileStatements(self, block.statements)

_compileStmtReturn(self, statement) == _compileExpression(self, statement.result)

\* (_compileStmtIf with the Jump after the then-branch to labelElse)
_compileStmtIfIntoElse(self, statement) ==
    Try(_compileExpression(self, statement.condition), LAMBDA s1 :
    Try(_produce(s1, statement.condition.startPos, statement.condition.endPos,
                 ITypeCheck(TypeStructure(i18n("TYPE:Bool"), EmptyObject))), LAMBDA s2 :
    LET labelElse == LabelName(s2._nextLabel) IN
    Try(_freshLabel(s2), LAMBDA s3 :
    Try(_produce(s3, statement.startPos, statement.endPos, IJumpIfFalse(labelElse)),
        LAMBDA s4 :
    Try(_compileStatement(s4, statement.thenBlock), LAMBDA s5 :
    IF statement.elseBlock = Null
    THEN _produce(s5, statement.startPos, statement.endPos, ILabel(labelElse))
    ELSE LET labelEnd == LabelName(s5._nextLabel) IN
         Try(_freshLabel(s5), LAMBDA s6 :
         Try(_produceList(s6, statement.startPos, statement.endPos,
                          <<IJump(labelElse), ILabel(labelElse)>>), LAMBDA s7 :
         Try(_compileStatement(s7, statement.elseBlock), LAMBDA s8 :
         _produce(s8, statement.startPos, statement.endPos, ILabel(labelEnd))))))))))

_compileStmtIf(self, statement) ==
    Try(_compileExpression(self, statement.condition), LAMBDA s1 :
    Try(_produce(s1, statement.condition.startPos, statement.condition.endPos,
                 ITypeCheck(TypeStructure(i18n("TYPE:Bool"), EmptyObject))), LAMBDA s2 :
    LET labelElse == LabelName(s2._nextLabel) IN
    Try(_freshLabel(s2), LAMBDA s3 :
    Try(_produce(s3, statement.startPos, statement.endPos, IJumpIfFalse(labelElse)),
        LAMBDA s4 :
    Try(_compileStatement(s4, statement.thenBlock), LAMBDA s5 :
    IF statement.elseBlock = Null
    THEN _produce(s5, statement.startPos, statement.endPos, ILabel(labelElse))
    ELSE LET labelEnd == LabelName(s5._nextLabel) IN
         Try(_freshLabel(s5), LAMBDA s6 :
         Try(_produceList(s6, statement.startPos, statement.endPos,
                          <<IJump(labelEnd), ILabel(labelElse)>>), LAMBDA s7 :
         Try(_compileStatement(s7, statement.elseBlock), LAMBDA s8 :
         _produce(s8, statement.startPos, statement.endPos, ILabel(labelEnd))))))))))

_compileStmtRepeat(self, statement) ==
    Try(_compileExpression(self, statement.times), LAMBDA s1 :
    Try(_produce(s1, statement.times.startPos, statement.times.endPos,
                 ITypeCheck(TypeInteger)), LAMBDA s2 :
    LET labelStart == LabelName(s2._nextLabel) IN
    Try(_freshLabel(s2), LAMBDA s3 :
    LET labelEnd == LabelName(s3._nextLabel) IN
    Try(_freshLabel(s3), LAMBDA s4 :
    Try(_produceList(s4, statement.startPos, statement.endPos,
            <<ILabel(labelStart), IDup, IPushInteger("0"), IPrimitiveCall(">", 2),
              IJumpIfFalse(labelEnd)>>), LAMBDA s5 :
    Try(_compileStatement(s5, statement.body), LAMBDA s6 :
    _produceList(s6, statement.startPos, statement.endPos,
        <<IPushInteger("1"), IPrimitiveCall("-", 2), IJump(labelStart),
          ILabel(labelEnd), IPop>>)))))))

_compileStmtForeach(self, statement) ==
    LET labelStart == LabelName(self._nextLabel) IN
    Try(_freshLabel(self), LAMBDA s1 :
    LET labelEnd == LabelName(s1._nextLabel) IN
    Try(_freshLabel(s1), LAMBDA s2 :
    LET list == VariableName(s2._nextVariable) IN
    Try(_freshVariable(s2), LAMBDA s3 :
    LET pos == VariableName(s3._nextVariable) IN
    Try(_freshVariable(s3), LAMBDA s4 :
    LET n == VariableName(s4._nextVariable) IN
    Try(_freshVariable(s4), LAMBDA s5 :
    Try(_compileExpression(s5, statement.range), LAMBDA s6 :
    Try(_produceList(s6, statement.range.startPos, statement.range.endPos,
            <<ITypeCheck(TypeList(TypeAny)), ISetVariable(list),
              IPushVariable(list), IPrimitiveCall("_unsafeListLength", 1),
              ISetVariable(n)>>), LAMBDA s7 :
    Try(_produceList(s7, statement.startPos, statement.endPos,
            <<IPushInteger("0"), ISetVariable(pos),
              ILabel(labelStart), IPushVariable(pos), IPushVariable(n),
              IPrimitiveCall("<", 2), IJumpIfFalse(labelEnd),
              IPushVariable(list), IPushVariable(pos),
              IPrimitiveCall("_unsafeListNth", 2),
              ISetVariable(statement.index.value)>>), LAMBDA s8 :
    Try(_compileStatement(s8, statement.body), LAMBDA s9 :
    _produceList(s9, statement.startPos, statement.endPos,
        <<IPushVariable(pos), IPushInteger("1"), IPrimitiveCall("+", 2),
          ISetVariable(pos), IJump(labelStart), ILabel(labelEnd),
          IUnsetVariable(list), IUnsetVariable(n), IUnsetVariable(pos),
          IUnsetVariable(statement.index.value)>>))))))))))

\* (_compileStmtWhile with the Jump after the body to labelEnd)
_compileStmtWhileOnce(self, statement) ==
    LET labelStart == LabelName(self._nextLabel) IN
    Try(_freshLabel(self), LAMBDA s1 :
    LET labelEnd == LabelName(s1._nextLabel) IN
    Try(_freshLabel(s1), LAMBDA s2 :
    Try(_produce(s2, statement.startPos, statement.endPos, ILabel(labelStart)),
        LAMBDA s3 :
    Try(_compileExpression(s3, statement.condition), LAMBDA s4 :
    Try(_produceList(s4, statement.startPos, statement.endPos,
            <<ITypeCheck(TypeStructure(i18n("TYPE:Bool"), EmptyObject)),
              IJumpIfFalse(labelEnd)>>), LAMBDA s5 :
    Try(_compileStatement(s5, statement.body), LAMBDA s6 :
    _produceList(s6, statement.startPos, statement.endPos,
        <<IJump(labelEnd), ILabel(labelEnd)>>)))))))

_compileStmtWhile(self, statement) ==
    LET labelStart == LabelName(self._nextLabel) IN
    Try(_freshLabel(self), LAMBDA s1 :
    LET labelEnd == LabelName(s1._nextLabel) IN
    Try(_freshLabel(s1), LAMBDA s2 :
    Try(_produce(s2, statement.startPos, statement.endPos, ILabel(labelStart)),
        LAMBDA s3 :
    Try(_compileExpression(s3, statement.condition), LAMBDA s4 :
    Try(_produceList(s4, statement.startPos, statement.endPos,
            <<ITypeCheck(TypeStructure(i18n("TYPE:Bool"), EmptyObject)),
              IJumpIfFalse(labelEnd)>>), LAMBDA s5 :
    Try(_compileStatement(s5, statement.body), LAMBDA s6 :
    _produceList(s6, statement.startPos, statement.endPos,
        <<IJump(labelStart), ILabel(labelEnd)>>)))))))

\* the first loop of _compileStmtSwitch: a fresh label and a pattern check per
\* branch; the result carries the compiler and the labels pushed to branchLabels
_compileSwitchChecks(self, branches, branchLabels) ==
    IF branches = <<>> THEN [self |-> self, branchLabels |-> branchLabels]
    ELSE LET label == LabelName(self._nextLabel) IN
         With(_compilePatternCheck(_freshLabel(self), Head(branches).pattern, label),
              LAMBDA s2 :
         IF s2.thrown # NoError THEN [self |-> s2, branchLabels |-> branchLabels]
         ELSE _compileSwitchChecks(s2, Tail(branches), Append(branchLabels, label)))

\* the second loop of _compileStmtSwitch, at (1-based) index i
_compileSwitchBranches(self, statement, branchLabels, labelEnd, i) ==
    IF i > Len(branchLabels) THEN self
    ELSE LET branch == statement.branches[i]
             label == branchLabels[i]
         IN
         Try(_produce(self, branch.startPos, branch.endPos, ILabel(label)), LAMBDA s1 :
         Try(_compilePatternBind(s1, branch.pattern), LAMBDA s2 :
         Try(_produce(s2, branch.startPos, branch.endPos, IPop), LAMBDA s3 :
         Try(_compileStatement(s3, branch.body), LAMBDA s4 :
         Try(_compilePatternUnbind(s4, branch.pattern), LAMBDA s5 :
         Try(_produce(s5, branch.startPos, branch.endPos, IJump(labelEnd)), LAMBDA s6 :
         _compileSwitchBranches(s6, statement, branchLabels, labelEnd, i + 1)))))))

_compileStmtSwitch(self, statement) ==
    Try(_compileExpression(self, statement.subject), LAMBDA s1 :
    With(_compileSwitchChecks(s1, statement.branches, <<>>), LAMBDA checks :
    Try(checks.self, LAMBDA s2 :
    Try(_produceList(s2, statement.startPos, statement.endPos,
            <<IPushString(i18n("errmsg:switch-does-not-match")),
              IPrimitiveCall("_FAIL", 1)>>), LAMBDA s3 :
    LET labelEnd == LabelName(s3._nextLabel) IN
    Try(_freshLabel(s3), LAMBDA s4 :
    Try(_compileSwitchBranches(s4, statement, checks.branchLabels, labelEnd, 1),
        LAMBDA s5 :
    _produce(s5, statement.startPos, statement.endPos, ILabel(labelEnd))))))))

_compileStmtAssignVariable(self, statement) ==
    Try(_compileExpression(self, statement.value), LAMBDA s1 :
        _produce(s1, statement.startPos, statement.endPos,
                 ISetVariable(statement.variable.value)))

\* the loop that assigns each variable, at (1-based) position i: the component
\* index of the instruction is the 0-based i - 1
\* (the loop with the component index counted from 1)
RECURSIVE _assignTupleVariablesFromOne(_, _, _)
_assignTupleVariablesFromOne(self, statement, i) ==
    IF i > Len(statement.variables) THEN self
    ELSE _assignTupleVariablesFromOne(
            _produceList(self, statement.startPos, statement.endPos,
                <<IReadTupleComponent(i), ISetVariable(statement.variables[i].value)>>),
            statement, i + 1)
RECURSIVE _assignTupleVariablesFrom(_, _, _)
_assignTupleVariablesFrom(self, statement, i) ==
    IF i > Len(statement.variables) THEN self
    ELSE _assignTupleVariablesFrom(
            _produceList(self, statement.startPos, statement.endPos,
                <<IReadTupleComponent(i - 1), ISetVariable(statement.variables[i].value)>>),
            statement, i + 1)

_compileStmtAssignTuple(self, statement) ==
    Try(_compileExpression(self, statement.value), LAMBDA s1 :
    LET expectedType == TypeTuple(Anys(Len(statement.variables))) IN
    Try(_produce(s1, statement.startPos, statement.endPos, ITypeCheck(expectedType)),
        LAMBDA s2 :
    Try(_assignTupleVariablesFrom(s2, statement, 1), LAMBDA s3 :
    _produce(s3, statement.startPos, statement.endPos, IPop))))

_compileStmtProcedureCallPrimitive(self, statement) ==
    _produce(self, statement.startPos, statement.endPos,
             IPrimitiveCall(statement.procedureName.value, Len(statement.args)))

\* the names a scope of _compileStmtProcedureCall declares; the second test of
\* the method reads functionName, and reading a name no scope declares raises a
\* ReferenceError (the arguments of a call are evaluated before it is made)
ProcedureCallScope == {"statement", "procedureName", "argument"}

_compileStmtProcedureCall(self, statement) ==
    LET procedureName == statement.procedureName.value IN
    Try(_compileExpressions(self, statement.args), LAMBDA s1 :
        IF RuntimePrimitives_isProcedure(procedureName)
        THEN _compileStmtProcedureCallPrimitive(s1, statement)
        ELSE IF "functionName" \notin ProcedureCallScope
        THEN Throw(s1, "ReferenceError: functionName is not defined")
        ELSE IF "isFunction" \notin SymbolTableMethods
        THEN Throw(s1, "TypeError: this._symtable.isFunction is not a function")
        ELSE IF procedureName \in DOMAIN s1._symtable._functions
        THEN Throw(s1, "calling a user-defined procedure not implemented")
        ELSE Throw(s1, "Compiler: " \o procedureName \o " is an undefined procedure."))

_compileStatement(self, statement) ==
    Mark(self,
         CASE statement.tag = "N_StmtBlock" -> _compileStmtBlock(self, statement)
           [] statement.tag = "N_StmtReturn" -> _compileStmtReturn(self, statement)
           [] statement.tag = "N_StmtIf" -> _compileStmtIf(self, statement)
           [] statement.tag = "N_StmtRepeat" -> _compileStmtRepeat(self, statement)
           [] statement.tag = "N_StmtForeach" -> _compileStmtForeach(self, statement)
           [] statement.tag = "N_StmtWhile" -> _compileStmtWhile(self, statement)
           [] statement.tag = "N_StmtSwitch" -> _compileStmtSwitch(self, statement)
           [] statement.tag = "N_StmtAssignVariable" ->
                 _compileStmtAssignVariable(self, statement)
           [] statement.tag = "N_StmtAssignTuple" ->
                 _compileStmtAssignTuple(self, statement)
           [] statement.tag = "N_StmtProcedureCall" ->
                 _compileStmtProcedureCall(self, statement)
           [] OTHER ->
                 Throw(self, "Compiler: Statement not implemented: " \o statement.tag),
         "statement", statement)

(***************************************************************************)
(* The top-level driver.                                                   *)
(***************************************************************************)
\* (_compileProgram with the closing Return left out)
_compileProgramNoReturn(self, definition) == _compileStatement(self, definition.body)
_compileProgram(self, definition) ==
    Try(_compileStatement(self, definition.body), LAMBDA s1 :
        _produce(s1, definition.startPos, definition.endPos, IReturn))

_compileInteractiveProgram(self, definition) == self   \* TODO
_compileProcedure(self, definition) == self            \* TODO
_compileFunction(self, definition) == self             \* TODO

\* the first loop of _compileMain
RECURSIVE _compilePrograms(_, _)
_compilePrograms(self, definitions) ==
    IF definitions = <<>> THEN self
    ELSE Try(IF Head(definitions).tag = "N_DefProgram"
             THEN _compileProgram(self, Head(definitions))
             ELSE IF Head(definitions).tag = "N_DefInteractiveProgram"
             THEN _compileInteractiveProgram(self, Head(definitions))
             ELSE self,
             LAMBDA s1 : _compilePrograms(s1, Tail(definitions)))

\* the second loop of _compileMain
RECURSIVE _compileCallables(_, _)
_compileCallables(self, definitions) ==
    IF definitions = <<>> THEN self
    ELSE Try(IF Head(definitions).tag = "N_DefProcedure"
             THEN _compileProcedure(self, Head(definitions))
             ELSE IF Head(definitions).tag = "N_DefFunction"
             THEN _compileFunction(self, Head(definitions))
             ELSE self,
             LAMBDA s1 : _compileCallables(s1, Tail(definitions)))

_compileMain(self, ast) ==
    IF Len(ast.definitions) = 0
    THEN _produce(self, ast.startPos, ast.endPos, IReturn)
    ELSE Try(_compilePrograms(self, ast.definitions), LAMBDA s1 :
             _compileCallables(s1, ast.definitions))

(***************************************************************************)
(* The inputs of the model: one symbol table and a catalogue of ASTs.      *)
(***************************************************************************)
\* the position pair of the node that starts at line l
At(l) == <<10 * l, 10 * l + 9>>

\* the symbol table after the linter has read
\*   type Coord is record { field x  field y }   procedure P() {}   function f() {}
\* on top of the built-in type Bool
LintedSymbolTable ==
    [_program |-> Null,
     _procedures |-> [name \in {"P"} |-> DefProcedure(At(90), name, StmtBlock(At(90), <<>>))],
     _functions |-> [name \in {"f"} |-> DefFunction(At(91), name, StmtBlock(At(91), <<>>))],
     _types |-> [name \in {"Bool", "Coord"} |-> Null],
     _typeConstructors |-> ("Bool" :> <<"False", "True">>) @@ ("Coord" :> <<"Coord">>),
     _constructors |-> [name \in {"False", "True", "Coord"} |-> Null],
     _constructorType |-> ("False" :> "Bool") @@ ("True" :> "Bool") @@ ("Coord" :> "Coord"),
     _constructorFields |->
        ("False" :> <<>>) @@ ("True" :> <<>>) @@ ("Coord" :> <<"x", "y">>),
     _fields |->
        ("x" :> <<[typeName |-> "Coord", constructorName |-> "Coord", index |-> 0]>>)
        @@ ("y" :> <<[typeName |-> "Coord", constructorName |-> "Coord", index |-> 1]>>)]

\* expressions
Var(name) == ExprVariable(At(1), name)
Num(text) == ExprConstantNumber(At(2), text)
Str(text) == ExprConstantString(At(3), text)
True_ == ExprStructure(At(4), "True", <<>>)
CoordOf(ex, ey) ==
    ExprStructure(At(5), "Coord", <<FieldValue(At(5), "x", ex), FieldValue(At(5), "y", ey)>>)
PairOf(e1, e2) == ExprTuple(At(6), <<e1, e2>>)
ListOf(elements) == ExprList(At(7), elements)
RangeOf(e1, e2) == ExprRange(At(8), e1, Null, e2)
UpdateOf(original, ex) ==
    ExprStructureUpdate(At(9), "Coord", original, <<FieldValue(At(9), "x", ex)>>)
CallF(name, args) == ExprFunctionCall(At(10), name, args)

\* statements
Assign(name, value) == StmtAssignVariable(At(11), name, value)
CallP(name, args) == StmtProcedureCall(At(12), name, args)
Block(statements) == StmtBlock(At(13), statements)
Branch(pattern, body) == SwitchBranch(At(14), pattern, body)

\* the statements the catalogue's programs have as their body
Bodies ==
    << \* 1..8: simple statements
       Block(<<>>),
       Assign("x", Num("42")),
       Assign("x", ListOf(<<Num("1"), Var("y"), Str("s")>>)),
       StmtAssignTuple(At(15), <<"a", "b">>, PairOf(Var("x"), Num("2"))),
       CallP("PutStone", <<Var("c")>>),
       Block(<<Assign("p", CoordOf(Num("1"), Var("y"))), StmtReturn(At(16), Var("p"))>>),
       Assign("x", CallF("+", <<CallF("numStones", <<Var("c")>>), Num("1")>>)),
       StmtAssignTuple(At(15), <<"a", "b", "c">>, Var("t")),
       \* 9..16: control flow
       StmtIf(At(20), Var("b"), Block(<<Assign("x", Num("1"))>>), Null),
       StmtIf(At(21), True_, Block(<<CallP("PutStone", <<Var("c")>>)>>),
              Block(<<CallP("Move", <<Var("d")>>)>>)),
       StmtWhile(At(22), Var("b"), Block(<<Assign("x", Num("0"))>>)),
       StmtRepeat(At(23), Num("3"), Block(<<CallP("PutStone", <<Var("c")>>)>>)),
       StmtForeach(At(24), "i", Var("xs"), Block(<<Assign("y", Var("i"))>>)),
       StmtSwitch(At(25), Var("s"),
           <<Branch(PatternStructure(At(26), "Coord", <<"p", "q">>),
                    Block(<<Assign("x", Var("p"))>>)),
             Branch(PatternStructure(At(27), "True", <<>>), Block(<<>>)),
             Branch(PatternWildcard(At(28)), Block(<<CallP("Move", <<Var("d")>>)>>))>>),
       StmtSwitch(At(29), PairOf(Var("x"), Var("y")),
           <<Branch(PatternTuple(At(30), <<"a", "b">>), Block(<<Assign("x", Var("a"))>>)),
             Branch(PatternTimeout(At(31)), Block(<<>>))>>),
       StmtSwitch(At(32), Var("s"), <<>>),
       \* 17..20: nested and sequenced control flow
       Block(<<StmtIf(At(33), Var("b"), Block(<<>>), Null),
               StmtIf(At(34), Var("b"), Block(<<>>), Block(<<>>)),
               StmtWhile(At(35), Var("b"), Block(<<>>))>>),
       StmtWhile(At(36), Var("b"),
           Block(<<StmtIf(At(37), Var("b"),
                       Block(<<StmtRepeat(At(38), Var("n"), Block(<<>>))>>),
                       Block(<<StmtSwitch(At(39), Var("s"),
                                  <<Branch(PatternWildcard(At(40)), Block(<<>>))>>)>>))>>)),
       StmtForeach(At(41), "i", ListOf(<<Num("1"), Num("2")>>),
           Block(<<StmtForeach(At(42), "j", Var("xs"),
                       Block(<<CallP("PutStone", <<Var("j")>>)>>))>>)),
       StmtRepeat(At(43), Num("2"),
           Block(<<StmtRepeat(At(44), Num("2"), Block(<<Assign("x", Num("1"))>>)),
                   StmtAssignTuple(At(15), <<"a", "b">>, Var("t"))>>)),
       \* 21..26: the expressions that are declared and not lowered
       Assign("x", RangeOf(Num("1"), Num("3"))),
       StmtRepeat(At(45), Num("2"), Block(<<Assign("x", RangeOf(Num("1"), Num("3")))>>)),
       StmtForeach(At(46), "i", RangeOf(Num("1"), Num("3")), Block(<<>>)),
       StmtReturn(At(47), RangeOf(Num("1"), Num("3"))),
       Assign("p", UpdateOf(Var("p"), Num("5"))),
       Block(<<Assign("x", Num("1")), StmtReturn(At(49), UpdateOf(Var("p"), Num("5")))>>),
       \* 27..33: calls that are not calls of primitives
       CallP("P", <<>>),
       StmtIf(At(50), Var("b"), Block(<<CallP("P", <<Var("x")>>)>>), Null),
       Assign("x", CallF("f", <<Num("1")>>)),
       Assign("x", CallF("x", <<Var("p")>>)),
       Assign("b", CallF("&&", <<Var("b"), Var("b")>>)),
       CallP("Q", <<Num("1")>>),
       StmtWhile(At(51), CallF("g", <<>>), Block(<<>>))
    >>

\* the definitions that stand beside the program in an AST
TypeCoord ==
    DefType(At(60), "Coord", <<ConstructorDeclaration(At(60), "Coord", <<"x", "y">>)>>)
ProcedureP == DefProcedure(At(61), "P", Block(<<CallP("PutStone", <<Var("c")>>)>>))
FunctionF == DefFunction(At(62), "f", Block(<<StmtReturn(At(62), Num("1"))>>))
Program(body) == DefProgram(At(63), body)

\* the catalogue: every body as the only definition, then the layouts of an
\* AST around a program, then the ASTs with no program
Programs ==
    [i \in 1..Len(Bodies) |-> Main(At(0), <<Program(Bodies[i])>>)]
    \o << Main(At(0), <<>>),
          Main(At(0), <<TypeCoord, ProcedureP, Program(Bodies[9]), FunctionF>>),
          Main(At(0), <<FunctionF, ProcedureP, TypeCoord, Program(Bodies[14])>>),
          Main(At(0), <<Program(Bodies[2]), ProcedureP, FunctionF>>),
          Main(At(0), <<ProcedureP, FunctionF, TypeCoord>>),
          Main(At(0), <<DefInteractiveProgram(At(64), <<>>), ProcedureP>>) >>

(***************************************************************************)
(* The compiler as a state machine: construction and calls of compile.     *)
(***************************************************************************)
\* the object a method of the compiler works on: the fields of the Compiler,
\* its Code by value, and the two fields of the model (thrown, marks)
Receiver ==
    [_symtable |-> compiler._symtable,
     _code |-> heap[compiler._code],
     _nextLabel |-> compiler._nextLabel,
     _nextVariable |-> compiler._nextVariable,
     thrown |-> NoError,
     marks |-> <<>>]

\* new Compiler(symtable), with its Code at heap reference ref
NewCompiler(symtable, ref) ==
    [_symtable |-> symtable, _code |-> ref, _nextLabel |-> 0, _nextVariable |-> 0]

\* compile(ast): the receiver after the call; what the call returns is the
\* reference this._code (see Compile)
compile(self, ast) == _compileMain(self, ast)

\* the virtual machine before any Code is loaded into it
IdleVM ==
    [status |-> "idle", call |-> 0, mark |-> 0, ip |-> 0, depth |-> 0,
     inside |-> FALSE, base |-> 0, low |-> 0, ended |-> FALSE]

\* new SymbolTable()
NewSymbolTable ==
    [_program |-> Null, _procedures |-> EmptyObject, _functions |-> EmptyObject,
     _types |-> EmptyObject, _typeConstructors |-> EmptyObject,
     _constructors |-> EmptyObject, _constructorType |-> EmptyObject,
     _constructorFields |-> EmptyObject, _fields |-> EmptyObject]

\* no function of value.js has been called
NoProbe == [fn |-> "none"]

\* the virtual machine with values before any Code is loaded into it
IdleMachine == [status |-> "idle"]

Init ==
    /\ heap = << <<>> >>
    /\ compiler = NewCompiler(LintedSymbolTable, 1)
    /\ calls = <<>>
    /\ vm = IdleVM
    /\ table = NewSymbolTable
    /\ probe = NoProbe
    /\ machine = IdleMachine

\* the caller constructs another compiler (for the same symbol table) once the
\* current one has been used
Construct ==
    /\ \E k \in 1..Len(calls) : calls[k].compiler = compiler._code
    /\ heap' = Append(heap, <<>>)
    /\ compiler' = NewCompiler(LintedSymbolTable, Len(heap) + 1)
    /\ UNCHANGED <<calls, vm, table, probe, machine>>

\* the caller invokes compile(Programs[a]) on the current compiler.  The call
\* record keeps what the caller observes: the reference returned (0 when the
\* call raised), the error raised, and the instructions the Code held at the
\* moment of the return.
CompileReturns(a, after) ==
    /\ heap' = [heap EXCEPT ![compiler._code] = after._code]
    /\ compiler' = [compiler EXCEPT !._nextLabel = after._nextLabel,
                                    !._nextVariable = after._nextVariable]
    /\ calls' = Append(calls,
           [ast |-> a,
            compiler |-> compiler._code,
            first |-> Len(heap[compiler._code]) + 1,
            thrown |-> after.thrown,
            returned |-> IF after.thrown = NoError THEN compiler._code ELSE 0,
            instructions |-> after._code,
            marks |-> after.marks])

Compile(a) ==
    /\ Len(calls) < MaxCalls
    /\ CompileReturns(a, compile(Receiver, Programs[a]))
    /\ UNCHANGED <<vm, table, probe, machine>>

Next ==
    \/ Construct
    \/ \E a \in 1..Len(Programs) : Compile(a)

Spec == Init /\ [][Next]_vars

(***************************************************************************)
(* What the linter guarantees of an AST before compile is given it: every  *)
(* name the AST uses is a name the symbol table or the catalog of          *)
(* primitives knows.                                                       *)
(***************************************************************************)
\* the nodes directly below a node of the AST
Children(node) ==
    LET Some(child) == IF child = Null THEN {} ELSE {child}
        All(children) == {children[i] : i \in 1..Len(children)}
    IN  CASE node.tag = "N_Main" -> All(node.definitions)
          [] node.tag \in {"N_DefProgram", "N_DefProcedure", "N_DefFunction"} -> {node.body}
          [] node.tag = "N_DefInteractiveProgram" -> All(node.branches)
          [] node.tag = "N_StmtBlock" -> All(node.statements)
          [] node.tag = "N_StmtReturn" -> {node.result}
          [] node.tag = "N_StmtIf" ->
                {node.condition, node.thenBlock} \cup Some(node.elseBlock)
          [] node.tag = "N_StmtRepeat" -> {node.times, node.body}
          [] node.tag = "N_StmtForeach" -> {node.range, node.body}
          [] node.tag = "N_StmtWhile" -> {node.condition, node.body}
          [] node.tag = "N_StmtSwitch" -> {node.subject} \cup All(node.branches)
          [] node.tag = "N_SwitchBranch" -> {node.pattern, node.body}
          [] node.tag \in {"N_StmtAssignVariable", "N_StmtAssignTuple", "N_FieldValue"} ->
                {node.value}
          [] node.tag \in {"N_StmtProcedureCall", "N_ExprFunctionCall"} -> All(node.args)
          [] node.tag \in {"N_ExprList", "N_ExprTuple"} -> All(node.elements)
          [] node.tag = "N_ExprRange" ->
                {node.first, node.last} \cup Some(node.second)
          [] node.tag = "N_ExprStructure" -> All(node.fieldBindings)
          [] node.tag = "N_ExprStructureUpdate" ->
                {node.original} \cup All(node.fieldBindings)
          [] OTHER -> {}

\* the nodes of the AST below and including node
RECURSIVE Nodes(_)
Nodes(node) == {node} \cup UNION {Nodes(child) : child \in Children(node)}

\* the node uses only names that are declared
LintedNode(symtable, node) ==
    CASE node.tag = "N_StmtProcedureCall" ->
            \/ RuntimePrimitives_isProcedure(node.procedureName.value)
            \/ node.procedureName.value \in DOMAIN symtable._procedures
      [] node.tag = "N_ExprFunctionCall" ->
            \/ RuntimePrimitives_isFunction(node.functionName.value)
            \/ node.functionName.value \in {"&&", "||"}
            \/ node.functionName.value \in DOMAIN symtable._functions
            \/ node.functionName.value \in DOMAIN symtable._fields
      [] node.tag \in {"N_ExprStructure", "N_ExprStructureUpdate", "N_PatternStructure"} ->
            node.constructorName.value \in DOMAIN symtable._constructors
      [] node.tag = "N_DefProcedure" -> node.name.value \in DOMAIN symtable._procedures
      [] node.tag = "N_DefFunction" -> node.name.value \in DOMAIN symtable._functions
      [] node.tag = "N_DefType" -> node.typeName.value \in DOMAIN symtable._types
      [] OTHER -> TRUE

Linted(symtable, ast) == \A node \in Nodes(ast) : LintedNode(symtable, node)

(***************************************************************************)
(* The Code that compile returns (claims C1, C2, C5 to C10).               *)
(***************************************************************************)
\* the calls of compile made so far, and those that returned a Code
Calls == 1..Len(calls)
Returned == {c \in Calls : calls[c].returned # 0}

\* the positions of the Label instructions, and of the jumps
LabelsOf(instructions) ==
    {k \in 1..Len(instructions) : instructions[k].op = "Label"}
JumpsOf(instructions) ==
    {k \in 1..Len(instructions) : instructions[k].op \in JumpOps}

\* the instructions the call c appended to the Code of its compiler
Emitted(c) == SubSeq(calls[c].instructions, calls[c].first, Len(calls[c].instructions))

\* C1: in a Code that compile returned, no two Label instructions carry the
\* same name, whatever was compiled into it and however the statements that
\* take labels are nested or sequenced.
C1_LabelNamesUnique ==
    \A c \in Returned :
        LET instructions == heap[calls[c].returned]
        IN  \A j, k \in LabelsOf(instructions) :
                instructions[j].label = instructions[k].label => j = k

\* a Code that holds the labels of nested if, while, repeat and switch
\* statements, compiled into it twice by the same compiler
C1_Witness ==
    /\ Len(calls) = 2
    /\ calls[1].compiler = calls[2].compiler
    /\ calls[1].ast = 18 /\ calls[2].ast = 18
    /\ 2 \in Returned
    /\ Cardinality(LabelsOf(heap[calls[2].returned])) >= 16

\* C2: in a Code that compile returned, the target of every Jump, JumpIfFalse,
\* JumpIfStructure and JumpIfTuple is the name of a Label of the same Code.
C2_JumpTargetsAreLabels ==
    \A c \in Returned :
        LET instructions == heap[calls[c].returned]
        IN  \A j \in JumpsOf(instructions) :
                \E k \in LabelsOf(instructions) :
                    instructions[k].label = instructions[j].targetLabel

\* C5: two calls of compile on the same AST (the symbol table is the same in
\* every call) produce the same instruction sequence, labels and synthetic
\* variables numbered from 0 in each, whichever compilers make the calls.
C5_SameInputsSameCode ==
    \A c, d \in Returned : calls[c].ast = calls[d].ast => Emitted(c) = Emitted(d)

\* C6: a Code that compile returned holds, ever after, the instructions it held
\* when it was returned.
C6_ReturnedCodeNeverChanges ==
    \A c \in Returned : heap[calls[c].returned] = calls[c].instructions

\* C7: compile raises nothing when the AST is linted against the symbol table.
C7_LintedNeverRaises ==
    \A c \in Calls :
        Linted(LintedSymbolTable, Programs[calls[c].ast]) => calls[c].thrown = NoError

\* C8: compile of an AST with no definitions returns a Code of exactly one
\* instruction, a Return with the start and end positions of the AST root.
C8_EmptyProgramIsOneReturn ==
    \A c \in Calls :
        LET ast == Programs[calls[c].ast]
        IN  ast.definitions = <<>> =>
                /\ c \in Returned
                /\ calls[c].instructions =
                      <<IReturn @@ [startPos |-> ast.startPos, endPos |-> ast.endPos]>>

\* the program definitions of an AST
ProgramsOf(ast) ==
    {i \in 1..Len(ast.definitions) : ast.definitions[i].tag = "N_DefProgram"}

UndefinedProcedureCall(symtable, statement) ==
    /\ statement.tag = "N_StmtProcedureCall"
    /\ ~RuntimePrimitives_isProcedure(statement.procedureName.value)
    /\ statement.procedureName.value \notin DOMAIN symtable._procedures

\* C10: compiling a call of a procedure P that is neither primitive nor
\* user-defined raises 'Compiler: P is an undefined procedure.'.
C10_UndefinedProcedureIsReported ==
    \A c \in Calls :
        \A i \in ProgramsOf(Programs[calls[c].ast]) :
            LET statement == Programs[calls[c].ast].definitions[i].body
            IN  UndefinedProcedureCall(LintedSymbolTable, statement) =>
                    calls[c].thrown = "Compiler: " \o statement.procedureName.value
                                        \o " is an undefined procedure."

\* the calls of functions in an AST, those of && and || apart
FunctionCallsOf(ast) ==
    {node \in Nodes(ast) : /\ node.tag = "N_ExprFunctionCall"
                           /\ node.functionName.value \notin {"&&", "||"}}

\* the error the dispatch on a function name that is no primitive ends in
DispatchError(symtable, functionName) ==
    IF functionName \in DOMAIN symtable._functions
    THEN "calling a user-defined function not implemented"
    ELSE IF functionName \in DOMAIN symtable._fields
    THEN "accessing a field not implemented"
    ELSE "Compiler: " \o functionName \o " is an undefined function."

\* C11: a call f(a1..an) of a primitive function is compiled to the code of the
\* arguments closed by PrimitiveCall(f, n); the call of any other f makes
\* compile raise: 'calling a user-defined function not implemented' when f is
\* a function of the symbol table, otherwise 'accessing a field not
\* implemented' when f is a field, otherwise 'Compiler: f is an undefined
\* function.'.
C11_FunctionCallDispatch ==
    \A c \in Calls :
        \A node \in FunctionCallsOf(Programs[calls[c].ast]) :
            IF RuntimePrimitives_isFunction(node.functionName.value)
            THEN c \in Returned =>
                    \E k \in 1..Len(calls[c].marks) :
                        LET mark == calls[c].marks[k]
                        IN  /\ mark.node = node
                            /\ mark.to > mark.from
                            /\ calls[c].instructions[mark.to - 1] =
                                  IPrimitiveCall(node.functionName.value, Len(node.args))
                                  @@ [startPos |-> node.startPos, endPos |-> node.endPos]
            ELSE calls[c].thrown = DispatchError(LintedSymbolTable, node.functionName.value)

\* the node is a construct that the compiler declares and does not lower
NotLowered(symtable, node) ==
    \/ node.tag \in {"N_DefInteractiveProgram", "N_DefProcedure", "N_DefFunction",
                     "N_ExprRange", "N_ExprStructureUpdate"}
    \/ /\ node.tag = "N_ExprFunctionCall"
       /\ \/ node.functionName.value \in {"&&", "||"}
          \/ /\ ~RuntimePrimitives_isFunction(node.functionName.value)
             /\ node.functionName.value \in
                    DOMAIN symtable._functions \cup DOMAIN symtable._fields

\* C12: compile raises an error whenever the AST holds a construct that is
\* declared and not lowered; no call of compile on such an AST returns.
C12_NotLoweredIsReported ==
    \A c \in Calls :
        (\E node \in Nodes(Programs[calls[c].ast]) : NotLowered(LintedSymbolTable, node))
            => calls[c].thrown # NoError

(***************************************************************************)
(* The three phases of a pattern, each on its own: the bind and the unbind *)
(* method of the compiler are called on a pattern, on a compiler that has  *)
(* produced nothing yet (claim C19).                                       *)
(***************************************************************************)
\* the parameters a pattern may have at most
MaxParameters == 3

\* the lists of at most n names
RECURSIVE NameLists(_)
NameLists(n) ==
    IF n = 0 THEN {<<>>}
    ELSE NameLists(n - 1) \cup
         {Append(names, name) : names \in {l \in NameLists(n - 1) : Len(l) = n - 1},
                                name \in {"p", "q"}}

\* the patterns: a structure pattern may have fewer or more parameters than its
\* constructor has fields, which the linter rejects and the compiler accepts
Patterns ==
    {PatternWildcard(At(70)), PatternTimeout(At(71))}
    \cup {PatternStructure(At(72), constructorName, names) :
            constructorName \in {"Coord", "True"}, names \in NameLists(MaxParameters)}
    \cup {PatternTuple(At(73), names) : names \in NameLists(MaxParameters)}

\* a compiler (for the linted symbol table) that has produced nothing yet
FreshReceiver ==
    [_symtable |-> LintedSymbolTable, _code |-> <<>>, _nextLabel |-> 0,
     _nextVariable |-> 0, thrown |-> NoError, marks |-> <<>>]

InitPattern ==
    /\ heap = << <<>> >>
    /\ compiler = NewCompiler(LintedSymbolTable, 1)
    /\ calls = <<>>
    /\ vm = IdleVM
    /\ table = NewSymbolTable
    /\ machine = IdleMachine
    /\ probe \in {[fn |-> "pattern", pattern |-> pattern, phase |-> "none",
                    code |-> <<>>, thrown |-> NoError] : pattern \in Patterns}

\* what a phase produced, or raised, is kept in the probe
PhaseReturns(phase, after) ==
    /\ probe' = [probe EXCEPT !.phase = phase, !.code = after._code,
                              !.thrown = after.thrown]
    /\ UNCHANGED <<heap, compiler, calls, vm, table, machine>>

PatternBind ==
    /\ probe.fn = "pattern" /\ probe.phase = "none"
    /\ PhaseReturns("bind", _compilePatternBind(FreshReceiver, probe.pattern))

PatternUnbind ==
    /\ probe.fn = "pattern" /\ probe.phase = "none"
    /\ PhaseReturns("unbind", _compilePatternUnbind(FreshReceiver, probe.pattern))

NextPattern == PatternBind \/ PatternUnbind

SpecPattern == InitPattern /\ [][NextPattern]_vars

\* the parameters of a pattern that has parameters to bind; k of them
ParametersOf(pattern) ==
    IF pattern.tag \in {"N_PatternStructure", "N_PatternTuple"}
    THEN pattern.parameters ELSE <<>>

\* the pattern has as many parameters as the linter lets it have: a structure
\* pattern none, or one for each field of its constructor
ArityLinted(symtable, pattern) ==
    pattern.tag = "N_PatternStructure" =>
        Len(pattern.parameters) \in
            {0, Len(SymbolTable_constructorFields(symtable, pattern.constructorName.value))}

\* the instruction, with the positions of the pattern
Of(pattern, instruction) ==
    instruction @@ [startPos |-> pattern.startPos, endPos |-> pattern.endPos]

\* the pairs the claim names: for the i-th parameter, the read of the i-th field
\* of the constructor (of the i-th component of the tuple, counted from 0), then
\* SetVariable of the parameter
BindPairs(symtable, pattern) ==
    LET parameters == ParametersOf(pattern)
        Read(i) ==
            IF pattern.tag = "N_PatternStructure"
            THEN IReadStructureField(
                    SymbolTable_constructorFields(symtable, pattern.constructorName.value)[i])
            ELSE IReadTupleComponent(i - 1)
    IN  [j \in 1..(2 * Len(parameters)) |->
            IF j % 2 = 1 THEN Of(pattern, Read((j + 1) \div 2))
            ELSE Of(pattern, ISetVariable(parameters[j \div 2].value))]

\* UnsetVariable of each parameter, in order
UnbindList(pattern) ==
    [j \in 1..Len(ParametersOf(pattern)) |->
        Of(pattern, IUnsetVariable(ParametersOf(pattern)[j].value))]

\* C19: for a pattern whose number of parameters the linter accepts, the bind
\* phase emits exactly one pair per parameter, in order (ReadStructureField of
\* the i-th field of the constructor, or ReadTupleComponent of the i-th
\* component, then SetVariable of the i-th parameter), and the unbind phase
\* exactly one UnsetVariable per parameter; a structure pattern with no
\* parameters, a wildcard and a timeout emit nothing in either phase; neither
\* phase raises.
C19_BindAndUnbindPerParameter ==
    (probe.fn = "pattern" /\ ArityLinted(LintedSymbolTable, probe.pattern)) =>
        /\ probe.phase = "bind" =>
              /\ probe.thrown = NoError
              /\ probe.code = BindPairs(LintedSymbolTable, probe.pattern)
        /\ probe.phase = "unbind" =>
              /\ probe.thrown = NoError
              /\ probe.code = UnbindList(probe.pattern)

\* the bind phase of a tuple pattern of three parameters has produced its code
C19_Witness ==
    /\ probe.fn = "pattern" /\ probe.phase = "bind"
    /\ probe.pattern.tag = "N_PatternTuple"
    /\ Len(probe.pattern.parameters) = 3
    /\ Len(probe.code) = 6

(***************************************************************************)
(* Integer values (class ValueInteger of value.js).  The number of a value *)
(* is kept as its decimal string, a sequence of characters here; every     *)
(* operation parses the strings of its operands with the big-integer       *)
(* library and prints the result back.                                     *)
(***************************************************************************)
\* the operands of div and mod are taken from -MaxInteger..MaxInteger
MaxInteger == 12

Digits == <<"0", "1", "2", "3", "4", "5", "6", "7", "8", "9">>

\* the big-integer library: the decimal string of an integer
RECURSIVE Integer_digits(_)
Integer_digits(n) ==
    IF n < 10 THEN <<Digits[n + 1]>>
    ELSE Append(Integer_digits(n \div 10), Digits[(n % 10) + 1])

Integer_toString(n) == IF n < 0 THEN <<"-">> \o Integer_digits(0 - n) ELSE Integer_digits(n)

\* the big-integer library: the integer of a decimal string
RECURSIVE Integer_parseDigits(_)
Integer_parseDigits(string) ==
    IF string = <<>> THEN 0
    ELSE 10 * Integer_parseDigits(SubSeq(string, 1, Len(string) - 1))
         + ((CHOOSE d \in 1..10 : Digits[d] = string[Len(string)]) - 1)

Integer(string) ==
    IF string[1] = "-" THEN 0 - Integer_parseDigits(Tail(string))
    ELSE Integer_parseDigits(string)

\* the big-integer library: divide truncates the quotient toward zero
Integer_divide(a, b) ==
    LET magnitude == (IF a < 0 THEN 0 - a ELSE a) \div (IF b < 0 THEN 0 - b ELSE b)
    IN  IF (a < 0) = (b < 0) THEN magnitude ELSE 0 - magnitude

\* new ValueInteger(number), number a string or a JavaScript number
ValueInteger(number) == [tag |-> "V_Integer", _number |-> number]
ValueIntegerOfNumber(number) == ValueInteger(Integer_toString(number))

ValueInteger_add(self, other) ==
    ValueInteger(Integer_toString(Integer(self._number) + Integer(other._number)))
ValueInteger_sub(self, other) ==
    ValueInteger(Integer_toString(Integer(self._number) - Integer(other._number)))
ValueInteger_mul(self, other) ==
    ValueInteger(Integer_toString(Integer(self._number) * Integer(other._number)))
ValueInteger_gt(self, other) == Integer(self._number) > Integer(other._number)
ValueInteger_lt(self, other) == Integer(self._number) < Integer(other._number)
ValueInteger_negate(self) == ValueInteger(Integer_toString(0 - Integer(self._number)))
ValueInteger_abs(self) ==
    IF ValueInteger_gt(self, ValueIntegerOfNumber(0)) THEN self ELSE ValueInteger_negate(self)

\* (div as the library divides: the quotient truncated toward zero)
ValueInteger_divTowardZero(self, other) ==
    ValueInteger(Integer_toString(Integer_divide(Integer(self._number), Integer(other._number))))
ValueInteger_div(self, other) ==
    LET z == ValueIntegerOfNumber(0)
    IN  IF ValueInteger_gt(self, z) = ValueInteger_gt(other, z)
        THEN ValueInteger(Integer_toString(
                Integer_divide(Integer(ValueInteger_abs(self)._number),
                               Integer(ValueInteger_abs(other)._number))))
        ELSE LET inc == ValueInteger_sub(ValueInteger_abs(other), ValueIntegerOfNumber(1))
             IN  ValueInteger(Integer_toString(0 -
                    Integer_divide(
                        Integer(ValueInteger_add(ValueInteger_abs(self), inc)._number),
                        Integer(ValueInteger_abs(other)._number))))

ValueInteger_mod(self, other) ==
    ValueInteger_sub(self, ValueInteger_mul(ValueInteger_div(self, other), other))

\* the integers that are operands
Operands == (0 - MaxInteger)..MaxInteger

InitInteger ==
    /\ heap = << <<>> >>
    /\ compiler = NewCompiler(LintedSymbolTable, 1)
    /\ calls = <<>>
    /\ vm = IdleVM
    /\ table = NewSymbolTable
    /\ machine = IdleMachine
    /\ probe \in {[fn |-> "integer", op |-> "none", a |-> ValueIntegerOfNumber(a),
                    b |-> ValueIntegerOfNumber(b), result |-> Null] :
                   a \in Operands, b \in Operands \ {0}}

\* a.div(b) is called
Div ==
    /\ probe.fn = "integer" /\ probe.op = "none"
    /\ probe' = [probe EXCEPT !.op = "div", !.result = ValueInteger_div(probe.a, probe.b)]
    /\ UNCHANGED <<heap, compiler, calls, vm, table, machine>>

\* a.mod(b) is called
Mod ==
    /\ probe.fn = "integer" /\ probe.op = "none"
    /\ probe' = [probe EXCEPT !.op = "mod", !.result = ValueInteger_mod(probe.a, probe.b)]
    /\ UNCHANGED <<heap, compiler, calls, vm, table, machine>>

NextInteger == Div \/ Mod

SpecInteger == InitInteger /\ [][NextInteger]_vars

\* q is the greatest integer with q * b <= a (b > 0), with q * b >= a (b < 0):
\* the floor of a / b
IsFloorOfQuotient(q, a, b) ==
    IF b > 0 THEN q * b <= a /\ a < (q + 1) * b
    ELSE q * b >= a /\ a > (q + 1) * b

\* C16: for all integers a and b with b # 0, a.div(b) is the floor of a / b, and
\* a.mod(b) is a - (a div b) * b: it is zero or has the sign of b, and is
\* smaller than b in absolute value.
C16_DivIsFloorModHasSignOfDivisor ==
    probe.fn = "integer" =>
        LET a == Integer(probe.a._number)
            b == Integer(probe.b._number)
        IN  /\ probe.op = "div" =>
                  /\ probe.result._number \in {Integer_toString(q) : q \in Operands}
                  /\ IsFloorOfQuotient(Integer(probe.result._number), a, b)
            /\ probe.op = "mod" =>
                  LET r == Integer(probe.result._number)
                  IN  /\ probe.result._number \in {Integer_toString(q) : q \in Operands}
                      /\ \E q \in Operands : IsFloorOfQuotient(q, a, b) /\ r = a - q * b
                      /\ r = 0 \/ (r > 0) = (b > 0)
                      /\ (IF r < 0 THEN 0 - r ELSE r) < (IF b < 0 THEN 0 - b ELSE b)

\* a negative operand has been divided by a positive one that does not divide it
C16_Witness ==
    /\ probe.fn = "integer" /\ probe.op = "div"
    /\ probe.a = ValueInteger(<<"-", "7">>) /\ probe.b = ValueInteger(<<"2">>)
    /\ probe.result = ValueInteger(<<"-", "4">>)

(***************************************************************************)
(* Definitions declared in a symbol table (class SymbolTable): defFunction *)
(* and defType.  A method works on the object with the field `thrown`      *)
(* added; what it stored before it raised stays stored.                    *)
(***************************************************************************)
\* defFunction and defType are called at most this many times in one behaviour
MaxDefinitions == 3

\* dictionary[key] = value
Put(dictionary, key, value) ==
    [k \in DOMAIN dictionary \cup {key} |-> IF k = key THEN value ELSE dictionary[k]]

\* the names every object inherits from Object.prototype (those that can be
\* written as a lowercase identifier, of which the model keeps one)
ObjectPrototype == {"toString"}

\* key in dictionary: own keys and inherited ones
In(key, dictionary) == key \in DOMAIN dictionary \cup ObjectPrototype

\* throw new GbsSyntaxError(position, i18n(message)(..., i18nPosition(
\* dictionary[key].startPos), ...)): for an inherited key the position is
\* undefined, and i18nPosition (./i18n) either formats it or raises a
\* TypeError; the receiver's field i18nPositionRaises says which
ThrowAlreadyDefined(self, dictionary, key, message) ==
    IF key \notin DOMAIN dictionary /\ self.i18nPositionRaises
    THEN Throw(self, "TypeError: Cannot read properties of undefined")
    ELSE Throw(self, "GbsSyntaxError: " \o message)

\* throw new GbsSyntaxError(position, i18n(message)(...))
GbsSyntaxError(message) == "GbsSyntaxError: " \o message

SymbolTable_defProgram(self, definition) ==
    IF self._program # Null
    THEN Throw(self, GbsSyntaxError("errmsg:program-already-defined"))
    ELSE [self EXCEPT !._program = definition]

SymbolTable_defInteractiveProgram(self, definition) ==
    SymbolTable_defProgram(self, definition)

SymbolTable_defProcedure(self, definition) ==
    LET name == definition.name.value
    IN  IF In(name, self._procedures)
        THEN ThrowAlreadyDefined(self, self._procedures, name,
                                 "errmsg:procedure-already-defined")
        ELSE [self EXCEPT !._procedures = Put(@, name, definition)]

SymbolTable_defFunction(self, definition) ==
    LET name == definition.name.value
    IN  IF In(name, self._functions)
        THEN ThrowAlreadyDefined(self, self._functions, name,
                                 "errmsg:function-already-defined")
        ELSE IF In(name, self._fields)
        THEN Throw(self,
                GbsSyntaxError("errmsg:function-and-field-cannot-have-the-same-name"))
        ELSE [self EXCEPT !._functions = Put(@, name, definition)]

\* this._fields[fieldName].push(new FieldDescriptor(...)), after
\* if (!(fieldName in this._fields)) this._fields[fieldName] = []: an inherited
\* key is a function, which has no push
SymbolTable_pushField(self, typeName, constructorName, fieldName, index) ==
    IF fieldName \in ObjectPrototype
    THEN Throw(self, "TypeError: this._fields[fieldName].push is not a function")
    ELSE [self EXCEPT !._fields = Put(@, fieldName,
            Append(IF fieldName \in DOMAIN @ THEN @[fieldName] ELSE <<>>,
                   [typeName |-> typeName, constructorName |-> constructorName,
                    index |-> index]))]

\* (_declareField with the test for a function of the same name left out)
SymbolTable_declareFieldUnchecked(self, typeName, constructorName, fieldName, index) ==
    SymbolTable_pushField(self, typeName, constructorName, fieldName, index)
SymbolTable_declareField(self, typeName, constructorName, fieldName, index) ==
    IF In(fieldName, self._functions)
    THEN ThrowAlreadyDefined(self, self._functions, fieldName,
                             "errmsg:function-and-field-cannot-have-the-same-name")
    ELSE SymbolTable_pushField(self, typeName, constructorName, fieldName, index)

\* the loop of _declareConstructor over the field names, at (1-based) position
\* i: the index of the field is the 0-based i - 1
RECURSIVE SymbolTable_declareFieldsFrom(_, _, _, _)
SymbolTable_declareFieldsFrom(self, typeName, constructorDeclaration, i) ==
    LET fieldNames == constructorDeclaration.fieldNames IN
    IF i > Len(fieldNames) THEN self
    ELSE IF \E j \in 1..(i - 1) : fieldNames[j].value = fieldNames[i].value
    THEN Throw(self, GbsSyntaxError("errmsg:repeated-field-name"))
    ELSE Try(SymbolTable_declareField(self, typeName,
                constructorDeclaration.constructorName.value, fieldNames[i].value, i - 1),
             LAMBDA s1 :
                SymbolTable_declareFieldsFrom(s1, typeName, constructorDeclaration, i + 1))

SymbolTable_declareConstructor(self, typeName, constructorDeclaration) ==
    LET constructorName == constructorDeclaration.constructorName.value IN
    IF In(constructorName, self._constructors)
    THEN ThrowAlreadyDefined(self, self._constructors, constructorName,
                             "errmsg:constructor-already-defined")
    ELSE Try([self EXCEPT
                !._constructors = Put(@, constructorName, constructorDeclaration),
                !._constructorType = Put(@, constructorName, typeName)], LAMBDA s1 :
         Try(SymbolTable_declareFieldsFrom(s1, typeName, constructorDeclaration, 1),
             LAMBDA s2 :
         [s2 EXCEPT !._constructorFields = Put(@, constructorName,
            [i \in 1..Len(constructorDeclaration.fieldNames) |->
                constructorDeclaration.fieldNames[i].value])]))

\* the loop of defType over the constructor declarations
RECURSIVE SymbolTable_declareConstructorsFrom(_, _, _)
SymbolTable_declareConstructorsFrom(self, definition, i) ==
    IF i > Len(definition.constructorDeclarations) THEN self
    ELSE Try(SymbolTable_declareConstructor(self, definition.typeName.value,
                definition.constructorDeclarations[i]), LAMBDA s1 :
             SymbolTable_declareConstructorsFrom(s1, definition, i + 1))

SymbolTable_defType(self, definition) ==
    LET typeName == definition.typeName.value IN
    IF In(typeName, self._types)
    THEN ThrowAlreadyDefined(self, self._types, typeName, "errmsg:type-already-defined")
    ELSE Try([self EXCEPT !._types = Put(@, typeName, definition)], LAMBDA s1 :
         Try(SymbolTable_declareConstructorsFrom(s1, definition, 1), LAMBDA s2 :
         [s2 EXCEPT !._typeConstructors = Put(@, typeName,
            [i \in 1..Len(definition.constructorDeclarations) |->
                definition.constructorDeclarations[i].constructorName.value])]))

\* the definitions handed to the symbol table
ProgramDefinitions == {DefProgram(<<1, 2>>, Null)}
InteractiveProgramDefinitions == {DefInteractiveProgram(<<2, 3>>, <<>>)}
ProcedureDefinitions == {DefProcedure(<<1, 2>>, name, Null) : name \in {"P", "toString"}}
FunctionNames == {"f", "x", "toString"}
FunctionDefinitions == {DefFunction(<<1, 2>>, name, Null) : name \in FunctionNames}
FieldNameLists ==
    {<<>>, <<"x">>, <<"f">>, <<"x", "f">>, <<"x", "x">>, <<"toString">>}
ConstructorDeclarationLists ==
    {<<ConstructorDeclaration(<<1, 2>>, "B", fieldNames)>> :
        fieldNames \in FieldNameLists}
    \cup {<<ConstructorDeclaration(<<1, 2>>, "B", <<first>>),
            ConstructorDeclaration(<<2, 3>>, "C", <<second>>)>> :
        first \in {"x", "f"}, second \in {"x", "f"}}
TypeDefinitions ==
    {DefType(<<1, 3>>, typeName, constructorDeclarations) :
        typeName \in {"A", "Z"},
        constructorDeclarations \in ConstructorDeclarationLists}

\* the fields of a SymbolTable
SymbolTableFields == DOMAIN NewSymbolTable

\* the object a method runs on, and the symbol table it leaves
SymbolTableReceiver(symtable, i18nPositionRaises) ==
    [k \in SymbolTableFields \cup {"thrown", "i18nPositionRaises"} |->
        IF k = "thrown" THEN NoError
        ELSE IF k = "i18nPositionRaises" THEN i18nPositionRaises
        ELSE symtable[k]]
Left(self) == [k \in SymbolTableFields |-> self[k]]

InitSymtable ==
    /\ heap = << <<>> >>
    /\ compiler = NewCompiler(LintedSymbolTable, 1)
    /\ calls = <<>>
    /\ vm = IdleVM
    /\ machine = IdleMachine
    /\ table = NewSymbolTable
    /\ probe = [fn |-> "symtable", method |-> "new", definition |-> Null,
                before |-> NewSymbolTable, thrown |-> NoError, count |-> 0]

\* one call of a method has left the object `after`
Defined(method, definition, after) ==
    /\ table' = Left(after)
    /\ probe' = [fn |-> "symtable", method |-> method, definition |-> definition,
                 before |-> table, thrown |-> after.thrown,
                 count |-> probe.count + 1]
    /\ UNCHANGED <<heap, compiler, calls, vm, machine>>

CallDefFunction ==
    /\ probe.fn = "symtable" /\ probe.count < MaxDefinitions
    /\ \E definition \in FunctionDefinitions, raises \in BOOLEAN :
          Defined("defFunction", definition,
                  SymbolTable_defFunction(SymbolTableReceiver(table, raises), definition))

CallDefType ==
    /\ probe.fn = "symtable" /\ probe.count < MaxDefinitions
    /\ \E definition \in TypeDefinitions, raises \in BOOLEAN :
          Defined("defType", definition,
                  SymbolTable_defType(SymbolTableReceiver(table, raises), definition))

CallDefProgram ==
    /\ probe.fn = "symtable" /\ probe.count < MaxDefinitions
    /\ \E definition \in ProgramDefinitions :
          Defined("defProgram", definition,
                  SymbolTable_defProgram(SymbolTableReceiver(table, FALSE), definition))

CallDefInteractiveProgram ==
    /\ probe.fn = "symtable" /\ probe.count < MaxDefinitions
    /\ \E definition \in InteractiveProgramDefinitions :
          Defined("defInteractiveProgram", definition,
                  SymbolTable_defInteractiveProgram(SymbolTableReceiver(table, FALSE),
                                                    definition))

CallDefProcedure ==
    /\ probe.fn = "symtable" /\ probe.count < MaxDefinitions
    /\ \E definition \in ProcedureDefinitions, raises \in BOOLEAN :
          Defined("defProcedure", definition,
                  SymbolTable_defProcedure(SymbolTableReceiver(table, raises), definition))

NextSymtable ==
    \/ CallDefFunction
    \/ CallDefType
    \/ CallDefProgram
    \/ CallDefInteractiveProgram
    \/ CallDefProcedure
SpecSymtable == InitSymtable /\ [][NextSymtable]_vars

\* the field names a type definition declares
FieldNamesOf(definition) ==
    UNION {{definition.constructorDeclarations[i].fieldNames[j].value :
                j \in DOMAIN definition.constructorDeclarations[i].fieldNames} :
           i \in DOMAIN definition.constructorDeclarations}

\* the syntax errors of the symbol table
SyntaxErrors ==
    {GbsSyntaxError(message) : message \in
        {"errmsg:function-already-defined", "errmsg:type-already-defined",
         "errmsg:constructor-already-defined", "errmsg:repeated-field-name",
         "errmsg:function-and-field-cannot-have-the-same-name"}}

\* the names of the last call's definition that clash with what the symbol
\* table held before the call
ClashingNames ==
    IF probe.method = "defFunction"
    THEN {probe.definition.name.value} \cap DOMAIN probe.before._fields
    ELSE IF probe.method = "defType"
    THEN FieldNamesOf(probe.definition) \cap DOMAIN probe.before._functions
    ELSE {}

\* C17: after any sequence of defFunction and defType calls, successful or
\* raising, no name is both a defined function and a declared field; a call
\* that defines a function named like an existing field, or declares a field
\* named like an existing function, raises a syntax error and records the
\* clashing name neither as a function nor as a field.
C17_NoNameIsFunctionAndField ==
    probe.fn = "symtable" =>
        /\ DOMAIN table._functions \cap DOMAIN table._fields = {}
        /\ ClashingNames # {} =>
            /\ probe.thrown \in SyntaxErrors
            /\ probe.method = "defFunction" =>
                    ClashingNames \cap DOMAIN table._functions = {}
            /\ probe.method = "defType" =>
                    ClashingNames \cap DOMAIN table._fields = {}

\* a defType whose second field is named like a function defined before has
\* raised after it recorded its first field
C17_Witness ==
    /\ probe.fn = "symtable" /\ probe.method = "defType"
    /\ ClashingNames = {"f"}
    /\ probe.thrown = GbsSyntaxError("errmsg:function-and-field-cannot-have-the-same-name")
    /\ "x" \in DOMAIN table._fields /\ "x" \notin DOMAIN probe.before._fields
    /\ "f" \in DOMAIN table._functions

(***************************************************************************)
(* The join of two types (value.js: joinTypes and its helpers).  A call   *)
(* either returns a value (a type, or null) or raises.                     *)
(***************************************************************************)
TypeString == [tag |-> "String"]

\* the longest tuple type among the operands
MaxComponents == 2

Return(value) == [thrown |-> NoError, value |-> value]
Raise(message) == [thrown |-> message, value |-> Null]

\* let value = call; the statements after it, unless the call raised
Then(result, rest(_)) == IF result.thrown # NoError THEN result ELSE rest(result.value)

\* for (let key in object): the keys in the order they were inserted; the
\* objects among the operands are built by inserting their keys in this order
KeyOrder == <<"B", "C", "Coord", "False", "True", "TIMEOUT", "x", "y">>
Keys(object) == SelectSeq(KeyOrder, LAMBDA key : key \in DOMAIN object)

RECURSIVE joinTypes(_, _)
RECURSIVE joinTupleTypesFrom(_, _, _, _)
RECURSIVE joinFieldsFrom(_, _, _, _)
RECURSIVE joinCommonConstructorsFrom(_, _, _, _)

\* the loop of joinTupleTypes, at (1-based) component i
joinTupleTypesFrom(type1, type2, i, joinedComponents) ==
    IF i > Len(type1.componentTypes) THEN Return(TypeTuple(joinedComponents))
    ELSE Then(joinTypes(type1.componentTypes[i], type2.componentTypes[i]), LAMBDA tj :
            IF tj = Null THEN Return(Null)
            ELSE joinTupleTypesFrom(type1, type2, i + 1, Append(joinedComponents, tj)))

joinTupleTypes(type1, type2) ==
    IF Len(type1.componentTypes) # Len(type2.componentTypes) THEN Return(Null)
    ELSE joinTupleTypesFrom(type1, type2, 1, <<>>)

joinListTypes(type1, type2) ==
    Then(joinTypes(type1.contentType, type2.contentType), LAMBDA joinedContent :
        IF joinedContent = Null THEN Return(Null)
        ELSE Return(TypeList(joinedContent)))

\* the second loop of joinFields, over the field names still to visit
joinFieldsFrom(fields1, fields2, fieldNames, joinedFields) ==
    IF fieldNames = <<>> THEN Return(joinedFields)
    ELSE Then(joinTypes(fields1[Head(fieldNames)], fields2[Head(fieldNames)]),
              LAMBDA joinedTypes :
            IF joinedTypes = Null THEN Return(Null)
            ELSE joinFieldsFrom(fields1, fields2, Tail(fieldNames),
                                Put(joinedFields, Head(fieldNames), joinedTypes)))

joinFields(fields1, fields2) ==
    IF \/ \E fieldName \in DOMAIN fields1 : ~In(fieldName, fields2)
       \/ \E fieldName \in DOMAIN fields2 : ~In(fieldName, fields1)
    THEN Raise("Error: Join fields: structures built using the same constructor "
                \o "should have the same set of fields.")
    ELSE joinFieldsFrom(fields1, fields2, Keys(fields1), EmptyObject)

\* the loop of joinStructureTypes over the constructors of type1 still to visit
joinCommonConstructorsFrom(type1, type2, constructorNames, joinedCases) ==
    IF constructorNames = <<>>
    THEN Return(TypeStructure(type1.typeName, joinedCases))
    ELSE IF Head(constructorNames) \notin DOMAIN type2.cases
    THEN joinCommonConstructorsFrom(type1, type2, Tail(constructorNames), joinedCases)
    ELSE Then(joinFields(type1.cases[Head(constructorNames)],
                         type2.cases[Head(constructorNames)]), LAMBDA joinedFields :
            IF joinedFields = Null THEN Return(Null)
            ELSE joinCommonConstructorsFrom(type1, type2, Tail(constructorNames),
                    Put(joinedCases, Head(constructorNames), joinedFields)))

\* the two calls of joinCommon: the constructors of one type only
joinCommon(type1, type2) ==
    [constructorName \in (DOMAIN type1.cases \ DOMAIN type2.cases)
                         \cup (DOMAIN type2.cases \ DOMAIN type1.cases) |->
        IF constructorName \in DOMAIN type1.cases
        THEN type1.cases[constructorName] ELSE type2.cases[constructorName]]

joinStructureTypes(type1, type2) ==
    IF type1.typeName # type2.typeName THEN Return(Null)
    ELSE joinCommonConstructorsFrom(type1, type2, Keys(type1.cases),
                                    joinCommon(type1, type2))

joinTypes(type1, type2) ==
    IF type1 = Null \/ type2 = Null THEN Return(Null)
    ELSE IF type1.tag = "Any" THEN Return(type2)
    ELSE IF type2.tag = "Any" THEN Return(type1)
    ELSE IF type1.tag = "Integer" /\ type2.tag = "Integer" THEN Return(type1)
    ELSE IF type1.tag = "String" /\ type2.tag = "String" THEN Return(type1)
    ELSE IF type1.tag = "Tuple" /\ type2.tag = "Tuple" THEN joinTupleTypes(type1, type2)
    ELSE IF type1.tag = "List" /\ type2.tag = "List" THEN joinListTypes(type1, type2)
    ELSE IF type1.tag = "Structure" /\ type2.tag = "Structure"
    THEN joinStructureTypes(type1, type2)
    ELSE Return(Null)

\* the types handed to joinTypes
BaseTypes == {TypeAny, TypeInteger, TypeString}
RECURSIVE TypeLists(_, _)
TypeLists(types, length) ==
    IF length = 0 THEN {<<>>}
    ELSE LET shorter == TypeLists(types, length - 1)
         IN  shorter \cup {Append(l, t) : l \in {x \in shorter : Len(x) = length - 1},
                                          t \in types}
FieldTypes ==
    UNION {[fieldNames -> {TypeAny, TypeInteger}] : fieldNames \in {{}, {"x"}, {"x", "y"}}}
StructureTypes ==
    {TypeStructure(typeName, cases) :
        typeName \in {"A", "Z"},
        cases \in UNION {[constructorNames -> FieldTypes] :
                            constructorNames \in {{"B"}, {"C"}, {"B", "C"}}}}
JoinOperands ==
    BaseTypes
    \cup {TypeTuple(componentTypes) : componentTypes \in TypeLists(BaseTypes, MaxComponents)}
    \cup {TypeList(contentType) : contentType \in BaseTypes \cup {TypeList(TypeAny)}}
    \cup StructureTypes
    \cup {TypeList(TypeStructure("A", [c \in {"B"} |-> fields])) : fields \in FieldTypes}

InitTypes ==
    /\ heap = << <<>> >>
    /\ compiler = NewCompiler(LintedSymbolTable, 1)
    /\ calls = <<>>
    /\ vm = IdleVM
    /\ machine = IdleMachine
    /\ table = NewSymbolTable
    /\ probe \in {[fn |-> "joinTypes", type1 |-> type1, type2 |-> type2,
                    called |-> FALSE, thrown |-> NoError, value |-> Null] :
                        type1 \in JoinOperands, type2 \in JoinOperands}

\* joinTypes(type1, type2) has returned or raised
JoinReturns(result) ==
    /\ probe' = [probe EXCEPT !.called = TRUE, !.thrown = result.thrown,
                              !.value = result.value]
    /\ UNCHANGED <<heap, compiler, calls, vm, table, machine>>

Join ==
    /\ probe.fn = "joinTypes" /\ ~probe.called
    /\ JoinReturns(joinTypes(probe.type1, probe.type2))

NextTypes == Join
SpecTypes == InitTypes /\ [][NextTypes]_vars

\* two types are joinable (value.js:263-274): Any may be replaced by any type,
\* structures of the same type are joinable if the matching fields of their
\* common constructors are
RECURSIVE Joinable(_, _)
Joinable(t1, t2) ==
    \/ t1.tag = "Any" \/ t2.tag = "Any"
    \/ t1.tag = "Integer" /\ t2.tag = "Integer"
    \/ t1.tag = "String" /\ t2.tag = "String"
    \/ /\ t1.tag = "Tuple" /\ t2.tag = "Tuple"
       /\ Len(t1.componentTypes) = Len(t2.componentTypes)
       /\ \A i \in 1..Len(t1.componentTypes) :
            Joinable(t1.componentTypes[i], t2.componentTypes[i])
    \/ /\ t1.tag = "List" /\ t2.tag = "List"
       /\ Joinable(t1.contentType, t2.contentType)
    \/ /\ t1.tag = "Structure" /\ t2.tag = "Structure"
       /\ t1.typeName = t2.typeName
       /\ \A c \in DOMAIN t1.cases \cap DOMAIN t2.cases :
            \A f \in DOMAIN t1.cases[c] \cap DOMAIN t2.cases[c] :
                Joinable(t1.cases[c][f], t2.cases[c][f])

\* type j is type t with occurrences of Any replaced and constructors added
RECURSIVE Instantiates(_, _)
Instantiates(j, t) ==
    \/ t.tag = "Any"
    \/ t.tag \in {"Integer", "String"} /\ j.tag = t.tag
    \/ /\ t.tag = "Tuple" /\ j.tag = "Tuple"
       /\ Len(j.componentTypes) = Len(t.componentTypes)
       /\ \A i \in 1..Len(t.componentTypes) :
            Instantiates(j.componentTypes[i], t.componentTypes[i])
    \/ /\ t.tag = "List" /\ j.tag = "List"
       /\ Instantiates(j.contentType, t.contentType)
    \/ /\ t.tag = "Structure" /\ j.tag = "Structure"
       /\ j.typeName = t.typeName
       /\ DOMAIN t.cases \subseteq DOMAIN j.cases
       /\ \A c \in DOMAIN t.cases :
            /\ DOMAIN t.cases[c] \subseteq DOMAIN j.cases[c]
            /\ \A f \in DOMAIN t.cases[c] :
                    Instantiates(j.cases[c][f], t.cases[c][f])

\* C15: joinTypes(t1, t2) never raises; it returns a join of the two types (a
\* type that instantiates both) when they are joinable and null when they are
\* not, for every pair of types built from Any, Integer, String, Tuple, List
\* and Structure.
C15_JoinTypesReturnsJoinOrNull ==
    (probe.fn = "joinTypes" /\ probe.called) =>
        /\ probe.thrown = NoError
        /\ IF Joinable(probe.type1, probe.type2)
           THEN /\ probe.value # Null
                /\ Instantiates(probe.value, probe.type1)
                /\ Instantiates(probe.value, probe.type2)
           ELSE probe.value = Null

(***************************************************************************)
(* The virtual machine that runs a Code, reduced to what the stack         *)
(* discipline is about: the instruction pointer and the depth of the local *)
(* stack.  Values are not kept, so a conditional jump may go either way,   *)
(* and the runs that the machine would abandon on a value (a failed        *)
(* TypeCheck, a variable with no value) are not told apart from the others.*)
(*                                                                         *)
(* One span of the Code is watched while it runs (vm.mark, the code of one *)
(* statement or of one expression): `base` is the depth when control       *)
(* entered the span, `low` the lowest position of the stack an instruction *)
(* of the span took a value from, `ended` holds in the state where control *)
(* has just left the span through its end.                                 *)
(***************************************************************************)
\* the values an instruction takes off the stack
Pops(instruction) ==
    CASE instruction.op \in {"SetVariable", "JumpIfFalse", "Pop"} -> 1
      [] instruction.op \in {"MakeTuple", "MakeList"} -> instruction.size
      [] instruction.op = "MakeStructure" -> Len(instruction.fieldNames)
      [] instruction.op = "PrimitiveCall" -> instruction.nargs
      [] OTHER -> 0

\* the values that must be on the stack for the instruction to run
Needs(instruction) ==
    IF instruction.op \in {"JumpIfStructure", "JumpIfTuple", "ReadTupleComponent",
                           "ReadStructureField", "Dup", "TypeCheck"}
    THEN 1
    ELSE Pops(instruction)

\* the values an instruction puts on the stack; a primitive procedure returns
\* no value, a primitive function returns one
Pushes(instruction) ==
    CASE instruction.op \in {"PushInteger", "PushString", "PushVariable", "MakeTuple",
                             "MakeList", "MakeStructure", "ReadTupleComponent",
                             "ReadStructureField", "Dup"} -> 1
      [] instruction.op = "PrimitiveCall" ->
            IF RuntimePrimitives_isProcedure(instruction.primitiveName) THEN 0 ELSE 1
      [] OTHER -> 0

\* the position of the Label named label in the instructions, 0 when there is none
LabelPosition(instructions, label) ==
    IF \E k \in 1..Len(instructions) :
            instructions[k].op = "Label" /\ instructions[k].label = label
    THEN CHOOSE k \in 1..Len(instructions) :
            instructions[k].op = "Label" /\ instructions[k].label = label
    ELSE 0

\* the positions control may be at after the instruction at ip has run
Successors(instructions, ip) ==
    LET instruction == instructions[ip]
    IN  CASE instruction.op = "Jump" ->
                {LabelPosition(instructions, instruction.targetLabel)}
          [] instruction.op \in {"JumpIfFalse", "JumpIfStructure", "JumpIfTuple"} ->
                {ip + 1, LabelPosition(instructions, instruction.targetLabel)}
          [] OTHER -> {ip + 1}

\* the watched span of the machine v
Watched(v) == calls[v.call].marks[v.mark]

\* control has arrived at v.ip: it enters the watched span, leaves it through
\* its end, or neither (a span of no instructions is entered and left at once)
Arrive(v) ==
    LET m == Watched(v)
    IN  IF ~v.inside /\ v.ip = m.from
        THEN IF m.to = m.from
             THEN [v EXCEPT !.base = v.depth, !.low = v.depth, !.ended = TRUE]
             ELSE [v EXCEPT !.inside = TRUE, !.base = v.depth, !.low = v.depth,
                            !.ended = FALSE]
        ELSE IF v.inside /\ v.ip = m.to
        THEN [v EXCEPT !.inside = FALSE, !.ended = TRUE]
        ELSE [v EXCEPT !.ended = FALSE]

\* the Code a call of compile returned is loaded, with one span to watch
Load ==
    /\ vm.status = "idle"
    /\ Len(calls) = 1
    /\ calls[1].returned # 0
    /\ \E m \in 1..Len(calls[1].marks) :
          vm' = Arrive([IdleVM EXCEPT !.status = "running", !.call = 1, !.mark = m,
                                     !.ip = 1])
    /\ UNCHANGED <<heap, compiler, calls, table, probe, machine>>

\* the machine runs the instruction at vm.ip
Step ==
    /\ vm.status = "running"
    /\ LET instructions == heap[calls[vm.call].returned]
           instruction == instructions[vm.ip]
           depth == vm.depth - Pops(instruction) + Pushes(instruction)
           low == IF vm.inside /\ vm.depth - Pops(instruction) < vm.low
                  THEN vm.depth - Pops(instruction) ELSE vm.low
       IN  IF vm.ip > Len(instructions)
           THEN vm' = [vm EXCEPT !.status = "end of code", !.ended = FALSE]
           ELSE IF vm.depth < Needs(instruction)
           THEN vm' = [vm EXCEPT !.status = "stack underflow", !.ended = FALSE]
           ELSE IF instruction.op = "Return"
           THEN vm' = [vm EXCEPT !.status = "returned", !.ended = FALSE]
           ELSE IF instruction.op = "PrimitiveCall" /\ instruction.primitiveName = "_FAIL"
           THEN vm' = [vm EXCEPT !.status = "failed", !.ended = FALSE]
           ELSE /\ depth <= MaxStack
                /\ \E ip \in Successors(instructions, vm.ip) :
                      IF ip = 0
                      THEN vm' = [vm EXCEPT !.status = "no such label", !.ended = FALSE]
                      ELSE vm' = Arrive([vm EXCEPT !.ip = ip, !.depth = depth, !.low = low])
    /\ UNCHANGED <<heap, compiler, calls, table, probe, machine>>

\* one compilation on the compiler as constructed, then a run of its Code
CompileFresh(a) == calls = <<>> /\ Compile(a)

NextVM ==
    \/ \E a \in 1..Len(Programs) : CompileFresh(a)
    \/ Load
    \/ Step

SpecVM == Init /\ [][NextVM]_vars

(***************************************************************************)
(* The stack discipline of the emitted code (claims C3 and C4).            *)
(***************************************************************************)
\* a return statement, or the block that a return statement closes
LeavesResult(statement) ==
    \/ statement.tag = "N_StmtReturn"
    \/ /\ statement.tag = "N_StmtBlock"
       /\ statement.statements # <<>>
       /\ statement.statements[Len(statement.statements)].tag = "N_StmtReturn"

\* C3: on every run of the code of a statement that reaches the end of that
\* code, the stack is as deep at the end as it was at the start; it is one
\* deeper when the statement is a return statement (or the block a return
\* statement closes).
C3_StatementsKeepDepth ==
    (vm.status # "idle" /\ vm.ended /\ Watched(vm).kind = "statement")
        => vm.depth = vm.base + (IF LeavesResult(Watched(vm).node) THEN 1 ELSE 0)

\* C4: the code of every expression that _compileExpression compiled without
\* raising leaves the stack exactly one deeper than it found it, and takes no
\* value that was on the stack before it started.
C4_ExpressionsPushOne ==
    (vm.status # "idle" /\ Watched(vm).kind = "expression")
        => /\ vm.low >= vm.base
           /\ vm.ended => vm.depth = vm.base + 1

(***************************************************************************)
(* The virtual machine with values: it runs a Code as the documentation of *)
(* the instructions says (symtable.js, the list after the class), on the   *)
(* values of value.js.  One stack frame: the program's.  machine.log holds *)
(* the machine before each instruction it has run.                         *)
(***************************************************************************)
ValueString(string) == [tag |-> "V_String", _string |-> string]
ValueTuple(components) == [tag |-> "V_Tuple", _components |-> components]
ValueList(elements) == [tag |-> "V_List", _elements |-> elements]
ValueStructure(typeName, constructorName, fields) ==
    [tag |-> "V_Structure", _typeName |-> typeName, _constructorName |-> constructorName,
     _fields |-> fields]

\* new ValueInteger(number) for the text of a literal
ValueIntegerOfText(text) ==
    ValueIntegerOfNumber(CHOOSE n \in (0 - MaxInteger)..MaxInteger : ToString(n) = text)

\* value.type(); for a list the type its constructor inferred: the loop of
\* _inferType joins the types of the elements from TypeAny on, and the result
\* is a TypeList of what the loop leaves, null included; a constructor that
\* raised has built no value
RECURSIVE Value_type(_)
RECURSIVE ValueList_inferTypeFrom(_, _)
ValueList_inferTypeFrom(elements, contentType) ==
    IF elements = <<>> THEN Return(contentType)
    ELSE Then(joinTypes(contentType, Value_type(Head(elements))), LAMBDA joined :
            ValueList_inferTypeFrom(Tail(elements), joined))
ValueList_inferType(elements) ==
    Then(ValueList_inferTypeFrom(elements, TypeAny), LAMBDA contentType :
        Return(TypeList(contentType)))
Value_type(value) ==
    CASE value.tag = "V_Integer" -> TypeInteger
      [] value.tag = "V_String" -> TypeString
      [] value.tag = "V_Tuple" ->
            TypeTuple([i \in 1..Len(value._components) |-> Value_type(value._components[i])])
      [] value.tag = "V_List" -> ValueList_inferType(value._elements).value
      [] value.tag = "V_Structure" ->
            TypeStructure(value._typeName,
                value._constructorName :>
                    [fieldName \in DOMAIN value._fields |->
                        Value_type(value._fields[fieldName])])

\* the booleans the primitives return
ValueBoolean(b) ==
    ValueStructure(i18n("TYPE:Bool"), IF b THEN "True" ELSE "False", EmptyObject)

\* a primitive of the runtime applied to its arguments: it returns a value,
\* returns null (a procedure), or raises
Primitive(primitiveName, args) ==
    CASE primitiveName \in {">", "<", "+", "-"} ->
            IF \E i \in 1..Len(args) : args[i].tag # "V_Integer"
            THEN Raise("GbsRuntimeError: errmsg:primitive-argument-type-mismatch")
            ELSE IF primitiveName = ">"
            THEN Return(ValueBoolean(ValueInteger_gt(args[1], args[2])))
            ELSE IF primitiveName = "<"
            THEN Return(ValueBoolean(ValueInteger_lt(args[1], args[2])))
            ELSE IF primitiveName = "+"
            THEN Return(ValueInteger_add(args[1], args[2]))
            ELSE Return(ValueInteger_sub(args[1], args[2]))
      [] primitiveName = "_unsafeListLength" ->
            Return(ValueIntegerOfNumber(Len(args[1]._elements)))
      [] primitiveName = "_unsafeListNth" ->
            Return(args[1]._elements[Integer(args[2]._number) + 1])
      [] primitiveName = "_FAIL" -> Raise("GbsRuntimeError: " \o args[1]._string)
      [] primitiveName = "numStones" -> Return(ValueIntegerOfNumber(0))
      [] OTHER -> Return(Null)

\* the machine that is to run the instructions from the first one, with the
\* given stack and no local variable
Loaded(kind, input, instructions, marks, stack) ==
    [status |-> "running", kind |-> kind, input |-> input, code |-> instructions,
     marks |-> marks, ip |-> 1, stack |-> stack, locals |-> EmptyObject,
     error |-> NoError, log |-> <<>>]

\* the execution is abandoned with an error
Abandon(m, error) == [m EXCEPT !.status = "failed", !.error = error]

\* control goes to the instruction after the current one, or to a label
Advance(m) == [m EXCEPT !.ip = @ + 1]
JumpTo(m, label) ==
    IF LabelPosition(m.code, label) = 0 THEN Abandon(m, "no such label")
    ELSE [m EXCEPT !.ip = LabelPosition(m.code, label)]

\* the stack: its top is the last element
Top(stack) == stack[Len(stack)]
Drop(stack, n) == SubSeq(stack, 1, Len(stack) - n)
Taken(stack, n) == SubSeq(stack, Len(stack) - n + 1, Len(stack))

\* two values have compatible types: the types have a join
Compatible(type1, type2) ==
    type1 # Null /\ joinTypes(type1, type2).thrown = NoError
                 /\ joinTypes(type1, type2).value # Null

\* the machine after the instruction at m.ip
Execute(m) ==
    LET instruction == m.code[m.ip]
        op == instruction.op
    IN
    IF Len(m.stack) < Needs(instruction) THEN Abandon(m, "stack underflow")
    ELSE CASE op = "PushInteger" ->
            Advance([m EXCEPT !.stack = Append(@, ValueIntegerOfText(instruction.number))])
      [] op = "PushString" ->
            Advance([m EXCEPT !.stack = Append(@, ValueString(instruction.string))])
      [] op = "PushVariable" ->
            IF instruction.variableName \notin DOMAIN m.locals
            THEN Abandon(m, "GbsRuntimeError: errmsg:undefined-variable")
            ELSE Advance([m EXCEPT !.stack = Append(@, m.locals[instruction.variableName])])
      [] op = "SetVariable" ->
            IF /\ instruction.variableName \in DOMAIN m.locals
               /\ ~Compatible(Value_type(m.locals[instruction.variableName]),
                              Value_type(Top(m.stack)))
            THEN Abandon(m, "GbsRuntimeError: errmsg:incompatible-types-on-assignment")
            ELSE Advance([m EXCEPT
                    !.locals = Put(@, instruction.variableName, Top(m.stack)),
                    !.stack = Drop(@, 1)])
      [] op = "UnsetVariable" ->
            Advance([m EXCEPT !.locals =
                [name \in DOMAIN @ \ {instruction.variableName} |-> @[name]]])
      [] op = "Label" -> Advance(m)
      [] op = "Jump" -> JumpTo(m, instruction.targetLabel)
      [] op = "JumpIfFalse" ->
            With([m EXCEPT !.stack = Drop(@, 1)], LAMBDA popped :
                IF Top(m.stack).tag = "V_Structure"
                   /\ Top(m.stack)._constructorName = "False"
                THEN JumpTo(popped, instruction.targetLabel)
                ELSE Advance(popped))
      [] op = "JumpIfStructure" ->
            IF Top(m.stack).tag = "V_Structure"
               /\ Top(m.stack)._constructorName = instruction.constructorName
            THEN JumpTo(m, instruction.targetLabel)
            ELSE Advance(m)
      [] op = "JumpIfTuple" ->
            IF Top(m.stack).tag = "V_Tuple"
               /\ Len(Top(m.stack)._components) = instruction.size
            THEN JumpTo(m, instruction.targetLabel)
            ELSE Advance(m)
      [] op = "Return" -> [m EXCEPT !.status = "returned"]
      [] op = "MakeTuple" ->
            Advance([m EXCEPT !.stack =
                Append(Drop(@, instruction.size), ValueTuple(Taken(@, instruction.size)))])
      [] op = "MakeList" ->
            With(ValueList_inferType(Taken(m.stack, instruction.size)), LAMBDA type :
                IF type.thrown # NoError THEN Abandon(m, type.thrown)
                ELSE IF type.value.contentType = Null
                THEN Abandon(m,
                        "GbsRuntimeError: errmsg:incompatible-types-on-list-creation")
                ELSE Advance([m EXCEPT !.stack =
                        Append(Drop(@, instruction.size),
                               ValueList(Taken(@, instruction.size)))]))
      [] op = "MakeStructure" ->
            Advance([m EXCEPT !.stack =
                Append(Drop(@, Len(instruction.fieldNames)),
                    ValueStructure(instruction.typeName, instruction.constructorName,
                        [fieldName \in {instruction.fieldNames[i] :
                                            i \in 1..Len(instruction.fieldNames)} |->
                            Taken(@, Len(instruction.fieldNames))[
                                CHOOSE i \in 1..Len(instruction.fieldNames) :
                                    instruction.fieldNames[i] = fieldName]]))])
      [] op = "ReadTupleComponent" ->
            IF Top(m.stack).tag # "V_Tuple"
            THEN Abandon(m, "GbsRuntimeError: errmsg:expected-tuple-value-but-got")
            ELSE IF instruction.index >= Len(Top(m.stack)._components)
            THEN Abandon(m, "GbsRuntimeError: errmsg:tuple-component-out-of-bounds")
            ELSE Advance([m EXCEPT !.stack =
                    Append(@, Top(@)._components[instruction.index + 1])])
      [] op = "ReadStructureField" ->
            IF Top(m.stack).tag # "V_Structure"
            THEN Abandon(m, "GbsRuntimeError: errmsg:expected-structure-but-got")
            ELSE IF instruction.fieldName \notin DOMAIN Top(m.stack)._fields
            THEN Abandon(m, "GbsRuntimeError: errmsg:structure-field-not-present")
            ELSE Advance([m EXCEPT !.stack =
                    Append(@, Top(@)._fields[instruction.fieldName])])
      [] op = "Dup" -> Advance([m EXCEPT !.stack = Append(@, Top(@))])
      [] op = "Pop" -> Advance([m EXCEPT !.stack = Drop(@, 1)])
      [] op = "PrimitiveCall" ->
            With(Primitive(instruction.primitiveName, Taken(m.stack, instruction.nargs)),
                 LAMBDA result :
                IF result.thrown # NoError THEN Abandon(m, result.thrown)
                ELSE IF result.value = Null
                THEN Advance([m EXCEPT !.stack = Drop(@, instruction.nargs)])
                ELSE Advance([m EXCEPT !.stack =
                        Append(Drop(@, instruction.nargs), result.value)]))
      [] op = "TypeCheck" ->
            IF joinTypes(Value_type(Top(m.stack)), instruction.type).thrown # NoError
            THEN Abandon(m, joinTypes(Value_type(Top(m.stack)), instruction.type).thrown)
            ELSE IF joinTypes(Value_type(Top(m.stack)), instruction.type).value = Null
            THEN Abandon(m, "GbsRuntimeError: errmsg:expected-value-of-type-but-got")
            ELSE Advance(m)

\* the machine as the log keeps it
Snapshot(m) == [ip |-> m.ip, stack |-> m.stack, locals |-> m.locals]

(***************************************************************************)
(* The programs and the pattern checks that are run.                       *)
(***************************************************************************)
\* expressions whose value does not depend on a variable
False_ == ExprStructure(At(4), "False", <<>>)
MinusOne == CallF("-", <<Num("0"), Num("1")>>)
TripleOf(e1, e2, e3) == ExprTuple(At(6), <<e1, e2, e3>>)

\* the body of the i-th branch of a switch
BranchBody(i) == Block(<<Assign("taken", Num(ToString(i)))>>)

\* the branches of a switch, from the patterns
BranchesOf(patterns) ==
    [i \in 1..Len(patterns) |-> Branch(patterns[i], BranchBody(i))]

SwitchSubjects ==
    {Num("1"), Str("s"), PairOf(Num("1"), Num("2")),
     TripleOf(Num("1"), Num("2"), Num("3")), True_, False_,
     CoordOf(Num("1"), Num("2")), ListOf(<<Num("1")>>), RangeOf(Num("1"), Num("3"))}

SwitchPatterns ==
    {<<>>,
     <<PatternWildcard(At(28))>>,
     <<PatternStructure(At(26), "Coord", <<"p", "q">>),
       PatternStructure(At(27), "True", <<>>), PatternWildcard(At(28))>>,
     <<PatternStructure(At(26), "True", <<>>), PatternStructure(At(27), "False", <<>>)>>,
     <<PatternStructure(At(26), "False", <<>>), PatternWildcard(At(28)),
       PatternStructure(At(27), "True", <<>>)>>,
     <<PatternTuple(At(30), <<"a", "b">>), PatternWildcard(At(28))>>,
     <<PatternTuple(At(30), <<"a", "b">>), PatternTuple(At(31), <<"a", "b", "c">>)>>,
     <<PatternTimeout(At(31)), PatternWildcard(At(28))>>,
     <<PatternTimeout(At(31)), PatternStructure(At(27), "True", <<>>)>>}

\* conditions: of type Bool, of another type, and one that is not lowered
Conditions ==
    {True_, False_, CallF(">", <<Num("2"), Num("1")>>),
     CallF("<", <<Num("2"), Num("1")>>), Num("1"), RangeOf(Num("1"), Num("3"))}

\* if statements, alone, nested, in a loop and after an assignment their
\* condition reads
IfBodies ==
    {StmtIf(At(20), condition, thenBlock, elseBlock) :
        condition \in Conditions,
        thenBlock \in {Block(<<>>), BranchBody(1)},
        elseBlock \in {Null, Block(<<>>), BranchBody(2)}}
    \cup {Block(<<Assign("b", condition),
                  StmtIf(At(21), Var("b"),
                         Block(<<StmtIf(At(33), Var("b"), BranchBody(1), BranchBody(2))>>),
                         Block(<<StmtIf(At(34), Var("b"), BranchBody(3), Null),
                                 Assign("x", Num("1"))>>))>>) :
            condition \in {True_, False_, Num("1")}}
    \cup {StmtRepeat(At(23), Num("2"),
                Block(<<StmtIf(At(20), condition,
                               Block(<<Assign("x", RangeOf(Num("1"), Num("3")))>>),
                               BranchBody(2))>>)) :
            condition \in {True_, False_}}

\* while statements whose condition is False after at most three turns, or
\* raises, or whose body raises
CountTo(first, last, body) ==
    Block(<<Assign("x", Num(first)),
            StmtWhile(At(22), CallF("<", <<Var("x"), Num(last)>>),
                Block(body \o <<Assign("x", CallF("+", <<Var("x"), Num("1")>>))>>))>>)
WhileBodies ==
    {CountTo(first, "2", <<>>) : first \in {"0", "1", "2", "3"}}
    \cup {CountTo("0", "2", <<StmtIf(At(20), CallF("<", <<Var("x"), Num("1")>>),
                                      BranchBody(1), BranchBody(2))>>),
          CountTo("0", "2", <<CountTo("1", "3", <<>>), Assign("x", Num("5"))>>),
          CountTo("0", "3", <<Assign("y", RangeOf(Num("1"), Num("3")))>>),
          StmtRepeat(At(23), Num("2"), CountTo("1", "2", <<>>)),
          StmtRepeat(At(23), Num("2"),
                Block(<<StmtWhile(At(22), True_,
                            Block(<<Assign("y", RangeOf(Num("1"), Num("3")))>>))>>))}
    \cup {StmtWhile(At(22), condition, BranchBody(1)) :
            condition \in {False_, Num("1"), RangeOf(Num("1"), Num("3")),
                           CallF("<", <<Num("2"), Num("1")>>)}}

\* bodies that end with a return statement
ReturnBodies ==
    {StmtReturn(At(16), PairOf(Num("1"), Num("2"))),
     Block(<<Assign("x", Num("1")), StmtReturn(At(16), Var("x"))>>),
     Block(<<StmtIf(At(20), True_, BranchBody(1), Null),
             StmtAssignTuple(At(15), <<"a", "b">>, PairOf(Num("1"), Num("2"))),
             CallP("PutStone", <<Var("a")>>),
             StmtReturn(At(16), Var("b"))>>)}

\* the statements that are run as the body of a program
RunBodies ==
    IfBodies \cup WhileBodies \cup ReturnBodies \cup
    {StmtSwitch(At(25), subject, BranchesOf(patterns)) :
        subject \in SwitchSubjects, patterns \in SwitchPatterns}
    \cup {StmtRepeat(At(23), times, body) :
            times \in {MinusOne, Num("0"), Num("1"), Num("2"), Num("3")},
            body \in {Block(<<>>), Block(<<Assign("x", Num("1"))>>),
                      Block(<<Assign("x", RangeOf(Num("1"), Num("3")))>>),
                      Block(<<StmtRepeat(At(44), Num("2"),
                                         Block(<<Assign("x", Num("1"))>>))>>),
                      Block(<<StmtForeach(At(24), "i", ListOf(<<Num("1"), Num("2")>>),
                                          Block(<<Assign("y", Var("i"))>>))>>),
                      Block(<<StmtSwitch(At(25), PairOf(Num("1"), Num("2")),
                                BranchesOf(<<PatternTuple(At(30), <<"a", "b">>)>>))>>)}}
    \cup {StmtForeach(At(24), "i", range, body) :
            range \in {ListOf(<<>>), ListOf(<<Num("1")>>),
                       ListOf(<<Num("1"), Num("2")>>), RangeOf(Num("1"), Num("3")),
                       ListOf(<<PairOf(Num("1"), Num("2"))>>)},
            body \in {Block(<<>>), Block(<<Assign("y", Var("i"))>>),
                      Block(<<Assign("y", Num("1")),
                              Assign("x", RangeOf(Num("1"), Num("3")))>>),
                      Block(<<StmtForeach(At(42), "j", ListOf(<<Num("3"), Num("4")>>),
                                          Block(<<Assign("y", Var("j"))>>))>>),
                      Block(<<StmtForeach(At(42), "i", ListOf(<<Num("3")>>),
                                          Block(<<>>))>>),
                      Block(<<StmtSwitch(At(25), Var("i"),
                                BranchesOf(<<PatternTuple(At(30), <<"a", "b">>),
                                             PatternWildcard(At(28))>>))>>)}}
    \cup {Block(<<StmtForeach(At(24), "i", ListOf(<<Num("1")>>), Block(<<>>)),
                  StmtForeach(At(42), "i", ListOf(<<Num("2"), Num("3")>>),
                              Block(<<Assign("y", Var("i"))>>))>>),
          Block(<<Assign("i", Num("5")),
                  StmtForeach(At(24), "i", ListOf(<<Num("1")>>), Block(<<>>))>>)}

RunPrograms == {Main(At(0), <<Program(body)>>) : body \in RunBodies}

\* the values a pattern check finds on top of the stack
Subjects ==
    {ValueIntegerOfNumber(1), ValueString("s"), ValueList(<<>>),
     ValueBoolean(TRUE), ValueBoolean(FALSE),
     ValueStructure("Coord", "Coord",
        ("x" :> ValueIntegerOfNumber(1)) @@ ("y" :> ValueIntegerOfNumber(2))),
     ValueStructure("Event", i18n("CONS:TIMEOUT"), EmptyObject)}
    \cup {ValueTuple([i \in 1..size |-> ValueIntegerOfNumber(i)]) :
            size \in 0..MaxParameters}

\* the code of a pattern check, followed by what tells a fall through (the
\* first Return) from a jump to the target (the Label)
CheckCode(pattern) ==
    _compilePatternCheck(FreshReceiver, pattern, "target")._code
    \o <<IReturn, ILabel("target"), IReturn>>

InitRun ==
    /\ heap = << <<>> >>
    /\ compiler = NewCompiler(LintedSymbolTable, 1)
    /\ calls = <<>>
    /\ vm = IdleVM
    /\ table = NewSymbolTable
    /\ probe = NoProbe
    /\ machine \in
        {Loaded("program", ast, compile(FreshReceiver, ast)._code,
                compile(FreshReceiver, ast).marks, <<>>) : ast \in RunPrograms}
        \cup {Loaded("check", [pattern |-> pattern, subject |-> subject],
                     CheckCode(pattern), <<>>, <<subject>>) :
                pattern \in Patterns, subject \in Subjects}

\* the machine has run one instruction
Ran(after) ==
    /\ machine' = [after EXCEPT !.log = Append(@, Snapshot(machine))]
    /\ UNCHANGED <<heap, compiler, calls, vm, table, probe>>

Run ==
    /\ machine.status = "running"
    /\ Ran(Execute(machine))

NextRun == Run
SpecRun == InitRun /\ [][NextRun]_vars

(***************************************************************************)
(* What a run has done, read from the log.                                 *)
(***************************************************************************)
\* the machine at each position control has been at, in order
History == Append(machine.log, Snapshot(machine))

\* the spans of the statements with the given tag
SpansOf(tag) ==
    {machine.marks[k] : k \in {i \in 1..Len(machine.marks) :
        machine.marks[i].kind = "statement" /\ machine.marks[i].tag = tag}}

\* control is in the span at the k-th position of the history
Inside(span, k) == History[k].ip >= span.from /\ History[k].ip < span.to

\* the positions of the history where control enters the span at its start
Entries(span) ==
    {e \in 1..Len(History) :
        /\ History[e].ip = span.from /\ span.from < span.to
        /\ e = 1 \/ ~Inside(span, e - 1)}

\* the first position after e where control is outside the span, 0 if none
Exit(span, e) ==
    IF \E l \in (e + 1)..Len(History) : ~Inside(span, l)
    THEN CHOOSE l \in (e + 1)..Len(History) :
            ~Inside(span, l) /\ \A k \in (e + 1)..(l - 1) : Inside(span, k)
    ELSE 0

\* the last position of the execution of the span entered at e
Last(span, e) == IF Exit(span, e) = 0 THEN Len(History) ELSE Exit(span, e) - 1

\* the run has been abandoned with control in the span
AbandonedIn(span) ==
    /\ machine.status = "failed"
    /\ machine.ip >= span.from /\ machine.ip < span.to

\* the span of the body of a repeat: the five instructions after it and the
\* five before it are the loop's
RepeatBody(span) ==
    CHOOSE body \in SpansOf("N_StmtBlock") :
        body.node = span.node.body /\ body.to = span.to - 5 /\ body.from > span.from

\* the positions, in the execution entered at e, where control is at the
\* Label that starts the loop, and where it enters the body
RepeatStarts(span, e) ==
    {k \in e..Last(span, e) : History[k].ip = RepeatBody(span).from - 5}
RepeatBodyRuns(span, e) ==
    {k \in e..(Last(span, e) - 1) :
        /\ History[k].ip = RepeatBody(span).from - 1
        /\ History[k + 1].ip = RepeatBody(span).from}

\* the counter when the loop starts: the value of the times expression
RepeatTimes(span, e) ==
    Integer(Top(History[CHOOSE k \in RepeatStarts(span, e) :
                            \A j \in RepeatStarts(span, e) : k <= j].stack)._number)

\* the execution of a repeat entered at e has run its body max(n, 0) times,
\* with the counter on the stack above what the stack held, one less at each
\* start of the loop, no variable changed by the loop's own instructions, and
\* the counter popped when control leaves through the end of the code
RepeatRunsBody(span, e) ==
    LET n == RepeatTimes(span, e)
        base == Drop(History[CHOOSE k \in RepeatStarts(span, e) : TRUE].stack, 1)
    IN  /\ Exit(span, e) # 0
        /\ History[Exit(span, e)].ip = span.to
        /\ Cardinality(RepeatBodyRuns(span, e)) = (IF n > 0 THEN n ELSE 0)
        /\ \A k \in RepeatStarts(span, e) :
                History[k].stack =
                    Append(base, ValueIntegerOfNumber(
                        n + 1 - Cardinality({j \in RepeatStarts(span, e) : j <= k})))
        /\ \A k \in e..Last(span, e) :
                (k < Len(History) /\ ~Inside(RepeatBody(span), k))
                    => History[k + 1].locals = History[k].locals
        /\ History[Exit(span, e)].stack = base

\* C20: executing the code emitted for 'repeat n' runs the body exactly
\* max(n, 0) times; the counter is kept only on the stack and in no named
\* variable, is decreased by 1 after each execution of the body, and is
\* popped exactly once when the loop ends (unless the body itself raises).
C20_RepeatRunsBodyNTimes ==
    (machine.status \in {"returned", "failed"} /\ machine.kind = "program") =>
        \A span \in SpansOf("N_StmtRepeat") : \A e \in Entries(span) :
            RepeatStarts(span, e) # {} =>
                AbandonedIn(RepeatBody(span)) \/ RepeatRunsBody(span, e)

\* the span of the body of a foreach: the ten instructions after it are the
\* loop's (the step, the jump back, the end label and the four unsets)
ForeachBody(span) ==
    CHOOSE body \in SpansOf("N_StmtBlock") :
        body.node = span.node.body /\ body.to = span.to - 10 /\ body.from > span.from

\* the variables the loop's own instructions set: the index and the
\* synthetic ones
Introduced(span) ==
    {machine.code[k].variableName :
        k \in {i \in span.from..(span.to - 1) :
                /\ machine.code[i].op = "SetVariable"
                /\ i < ForeachBody(span).from \/ i >= ForeachBody(span).to}}
Synthetic(span) == Introduced(span) \ {span.node.index.value}

\* C14: the synthetic variables that foreach introduces (_list, _n, _pos) and
\* its index variable are unset whenever control leaves the loop's code, which
\* it does through the end of the code only, so none of them is bound after
\* the foreach statement has finished; two foreach statements of a Code,
\* nested or consecutive, share no synthetic variable.
C14_ForeachUnsetsItsVariables ==
    machine.kind = "program" =>
        \A span \in SpansOf("N_StmtForeach") :
            /\ Cardinality(Synthetic(span)) = 3
            /\ \A other \in SpansOf("N_StmtForeach") :
                    other # span => Synthetic(span) \cap Synthetic(other) = {}
            /\ \A e \in Entries(span) :
                    Exit(span, e) # 0 =>
                        /\ History[Exit(span, e)].ip = span.to
                        /\ Introduced(span) \cap DOMAIN History[Exit(span, e)].locals = {}

\* a program has returned after a foreach nested in another ran to its end
\* twice and the outer one once, all their variables having been bound
C14_Witness ==
    /\ machine.kind = "program" /\ machine.status = "returned"
    /\ \E outer \in SpansOf("N_StmtForeach"), inner \in SpansOf("N_StmtForeach") :
        /\ inner.from > outer.from /\ inner.to < outer.to
        /\ Cardinality({e \in Entries(inner) : Exit(inner, e) # 0}) = 2
        /\ \E e \in Entries(outer) : Exit(outer, e) # 0
        /\ \E k \in 1..Len(History) :
                Introduced(outer) \cup Introduced(inner) \subseteq DOMAIN History[k].locals

\* the value matches the pattern
Matches(pattern, value) ==
    CASE pattern.tag = "N_PatternWildcard" -> TRUE
      [] pattern.tag = "N_PatternStructure" ->
            /\ value.tag = "V_Structure"
            /\ value._constructorName = pattern.constructorName.value
      [] pattern.tag = "N_PatternTuple" ->
            value.tag = "V_Tuple" /\ Len(value._components) = Len(pattern.parameters)
      [] pattern.tag = "N_PatternTimeout" ->
            value.tag = "V_Structure" /\ value._constructorName = i18n("CONS:TIMEOUT")

\* the value is of the type the pattern is about: any value for a wildcard
\* and a timeout, a structure of the type of the constructor, a tuple of the
\* pattern's size
OfTypeOf(pattern, value) ==
    CASE pattern.tag \in {"N_PatternWildcard", "N_PatternTimeout"} -> TRUE
      [] pattern.tag = "N_PatternStructure" ->
            /\ value.tag = "V_Structure"
            /\ value._typeName = LintedSymbolTable._constructorType[
                                    pattern.constructorName.value]
      [] pattern.tag = "N_PatternTuple" ->
            value.tag = "V_Tuple" /\ Len(value._components) = Len(pattern.parameters)

\* how the run of a pattern check has ended: at the Return after the target
\* label, at the Return after the check, or abandoned with a type error
JumpedToTarget == machine.status = "returned" /\ machine.ip = Len(machine.code)
FellThrough == machine.status = "returned" /\ machine.ip = Len(machine.code) - 2
RaisedTypeError ==
    /\ machine.status = "failed"
    /\ machine.error = "GbsRuntimeError: errmsg:expected-value-of-type-but-got"

\* C18 (as amended): the check code emitted for any pattern never pops or
\* alters the subject on top of the stack and jumps to the target label when
\* the subject matches the pattern; when the subject does not match, the code
\* falls through to the next instruction without raising if the subject is of
\* the pattern's type (always for a timeout pattern, a structure of the same
\* type built with another constructor for a structure pattern), and its
\* TypeCheck raises a type error otherwise (a subject that is no structure or
\* a structure of another type for a structure pattern, any subject that does
\* not match for a tuple pattern).
C18_CheckJumpsFallsThroughOrRaises ==
    machine.kind = "check" =>
        /\ machine.stack = <<machine.input.subject>>
        /\ machine.status # "running" =>
            IF Matches(machine.input.pattern, machine.input.subject)
            THEN JumpedToTarget
            ELSE IF OfTypeOf(machine.input.pattern, machine.input.subject)
            THEN FellThrough
            ELSE RaisedTypeError

\* the check of a pattern for pairs has raised on a tuple of three components
C18_Witness ==
    /\ machine.kind = "check" /\ machine.status # "running"
    /\ machine.input.pattern.tag = "N_PatternTuple"
    /\ Len(machine.input.pattern.parameters) = 2
    /\ machine.input.subject.tag = "V_Tuple"
    /\ Len(machine.input.subject._components) = 3
    /\ RaisedTypeError
    /\ machine.stack = <<machine.input.subject>>

\* C18 (as stated): the check code never pops or alters the subject, jumps to
\* the target label when the subject matches the pattern, and falls through to
\* the next instruction, without raising, when the subject does not match.
C18_CheckJumpsOrFallsThrough ==
    machine.kind = "check" =>
        /\ machine.stack = <<machine.input.subject>>
        /\ machine.status # "running" =>
            IF Matches(machine.input.pattern, machine.input.subject)
            THEN JumpedToTarget
            ELSE FellThrough

\* the value of an expression that holds no variable
RECURSIVE Denotes(_)
Denotes(expression) ==
    CASE expression.tag = "N_ExprConstantNumber" ->
            ValueIntegerOfText(expression.number.value)
      [] expression.tag = "N_ExprConstantString" -> ValueString(expression.string.value)
      [] expression.tag = "N_ExprTuple" ->
            ValueTuple([i \in 1..Len(expression.elements) |->
                            Denotes(expression.elements[i])])
      [] expression.tag = "N_ExprList" ->
            ValueList([i \in 1..Len(expression.elements) |->
                            Denotes(expression.elements[i])])
      [] expression.tag = "N_ExprRange" ->
            ValueList([i \in 1..(Integer(Denotes(expression.last)._number)
                                 - Integer(Denotes(expression.first)._number) + 1) |->
                ValueIntegerOfNumber(Integer(Denotes(expression.first)._number) + i - 1)])
      [] expression.tag = "N_ExprFunctionCall" ->
            Primitive(expression.functionName.value,
                      [i \in 1..Len(expression.args) |-> Denotes(expression.args[i])]).value
      [] expression.tag = "N_ExprStructure" ->
            ValueStructure(
                LintedSymbolTable._constructorType[expression.constructorName.value],
                expression.constructorName.value,
                [fieldName \in {expression.fieldBindings[i].fieldName.value :
                                    i \in 1..Len(expression.fieldBindings)} |->
                    Denotes(expression.fieldBindings[
                        CHOOSE i \in 1..Len(expression.fieldBindings) :
                            expression.fieldBindings[i].fieldName.value = fieldName].value)])

\* the switch that is the body of the program that runs, and its subject
TheSwitch == machine.input.definitions[1].body
TheSubject == Denotes(TheSwitch.subject)

\* the first branch, in source order, whose pattern matches the subject; 0
\* when no branch does
FirstMatch ==
    IF \E i \in 1..Len(TheSwitch.branches) :
            Matches(TheSwitch.branches[i].pattern, TheSubject)
    THEN CHOOSE i \in 1..Len(TheSwitch.branches) :
            /\ Matches(TheSwitch.branches[i].pattern, TheSubject)
            /\ \A j \in 1..(i - 1) : ~Matches(TheSwitch.branches[j].pattern, TheSubject)
    ELSE 0

\* control has been at the start of the body of the i-th branch
EnteredBranch(i) ==
    \E body \in SpansOf("N_StmtBlock") :
        /\ body.node = TheSwitch.branches[i].body
        /\ \E k \in 1..Len(History) : History[k].ip = body.from

\* the _FAIL primitive has been executed
FailExecuted ==
    \E k \in 1..Len(machine.log) :
        /\ machine.code[machine.log[k].ip].op = "PrimitiveCall"
        /\ machine.code[machine.log[k].ip].primitiveName = "_FAIL"
        /\ machine.log[k].stack # <<>>
        /\ Top(machine.log[k].stack) = ValueString(i18n("errmsg:switch-does-not-match"))

\* C13: executing the code emitted for a switch transfers control to the body
\* of the first branch, in source order, whose pattern matches the subject
\* (and to the body of no other branch); the _FAIL primitive with the message
\* 'errmsg:switch-does-not-match' is executed if and only if no branch
\* pattern matches, and is never executed when some branch is a wildcard.
C13_SwitchFirstMatchWins ==
    (/\ machine.kind = "program"
     /\ machine.status \in {"returned", "failed"}
     /\ TheSwitch.tag = "N_StmtSwitch") =>
        /\ \A i \in 1..Len(TheSwitch.branches) : EnteredBranch(i) <=> i = FirstMatch
        /\ FailExecuted <=> FirstMatch = 0
        /\ (\E i \in 1..Len(TheSwitch.branches) :
                TheSwitch.branches[i].pattern.tag = "N_PatternWildcard") => ~FailExecuted

\* the positions, in the execution of a foreach entered at e, where control
\* enters the body (from the SetVariable of the index), and where the length
\* of the list is read
ForeachBodyRuns(span, e) ==
    {k \in (e + 1)..Last(span, e) :
        /\ History[k].ip = ForeachBody(span).from
        /\ History[k - 1].ip = ForeachBody(span).from - 1}
ForeachLengthReads(span, e) ==
    {k \in e..Last(span, e) :
        /\ machine.code[History[k].ip].op = "PrimitiveCall"
        /\ machine.code[History[k].ip].primitiveName = "_unsafeListLength"
        /\ History[k].ip < ForeachBody(span).from
        /\ \A inner \in SpansOf("N_StmtForeach") :
                (inner.from >= span.from /\ inner.to <= ForeachBody(span).from)
                    => ~Inside(inner, k)}

\* the i-th (from 1) of a set of positions, in increasing order
Nth(positions, i) ==
    CHOOSE k \in positions : Cardinality({j \in positions : j <= k}) = i

\* the execution of a foreach entered at e has run its body once per element
\* of the list, in order, with the index variable bound to the element, has
\* read the length once, and has left through the end of its code
ForeachRunsBody(span, e) ==
    LET elements == Denotes(span.node.range)._elements
        runs == ForeachBodyRuns(span, e)
    IN  /\ Exit(span, e) # 0
        /\ History[Exit(span, e)].ip = span.to
        /\ Cardinality(runs) = Len(elements)
        /\ \A i \in 1..Cardinality(runs) :
                /\ span.node.index.value \in DOMAIN History[Nth(runs, i)].locals
                /\ History[Nth(runs, i)].locals[span.node.index.value] = elements[i]
        /\ Cardinality(ForeachLengthReads(span, e)) = 1

\* C21: executing the code emitted for a foreach over a list of length n runs
\* the body exactly n times, with the index variable set before each run to
\* the elements of the list in order (positions 0 to n-1); the list and its
\* length are read once before the loop, so that what the body assigns to
\* user variables changes neither the number of iterations nor the elements
\* visited (a body that raises ends the run inside the body; the index is, as
\* the linter's scoping has it, the name of no variable bound at the loop).
C21_ForeachRunsBodyPerElement ==
    (machine.status \in {"returned", "failed"} /\ machine.kind = "program") =>
        \A span \in SpansOf("N_StmtForeach") : \A e \in Entries(span) :
            span.node.index.value \notin DOMAIN History[e].locals =>
                AbandonedIn(ForeachBody(span)) \/ ForeachRunsBody(span, e)

\* the foreach that is the body of the program that runs, and its span
TheForeach == machine.input.definitions[1].body
TheForeachSpan ==
    CHOOSE span \in SpansOf("N_StmtForeach") : span.node = TheForeach /\ span.from = 1

\* the position of the TypeCheck that follows the code of the range: the
\* sixteen instructions before the body are the loop's
ForeachHead(span) == ForeachBody(span).from - 16

\* the names the code of the loop gives to the list, the length, the position
\* and the two labels
ListVariable(span) == machine.code[ForeachHead(span) + 1].variableName
LengthVariable(span) == machine.code[ForeachHead(span) + 4].variableName
PositionVariable(span) == machine.code[ForeachHead(span) + 6].variableName
StartLabel(span) == machine.code[ForeachHead(span) + 7].label
EndLabel(span) == machine.code[span.to - 5].label

\* the first position of the code where the variable appears, 0 if none
FirstUse(variableName) ==
    IF \E i \in 1..Len(machine.code) :
            "variableName" \in DOMAIN machine.code[i]
                /\ machine.code[i].variableName = variableName
    THEN CHOOSE i \in 1..Len(machine.code) :
            /\ "variableName" \in DOMAIN machine.code[i]
            /\ machine.code[i].variableName = variableName
            /\ \A j \in 1..(i - 1) :
                    "variableName" \in DOMAIN machine.code[j]
                        => machine.code[j].variableName # variableName
    ELSE 0

\* the program that runs is a single foreach, compiled by a fresh compiler
SingleForeach ==
    /\ machine.kind = "program"
    /\ TheForeach.tag = "N_StmtForeach"
    /\ \E span \in SpansOf("N_StmtForeach") : span.node = TheForeach /\ span.from = 1

\* the labels are _l0 and _l1 and no name has two roles
ForeachNamesDistinct(span) ==
    /\ StartLabel(span) = "_l0" /\ EndLabel(span) = "_l1"
    /\ machine.code[ForeachHead(span) + 7].op = "Label"
    /\ machine.code[span.to - 5].op = "Label"
    /\ Cardinality({ListVariable(span), LengthVariable(span), PositionVariable(span),
                    span.node.index.value}) = 4

\* C22 (as the code has it): compiling a single foreach statement on a fresh
\* compiler uses label _l0 for the loop start and _l1 for the loop end; its
\* synthetic variables are _v0 for the list, _v1 for the position _pos and
\* _v2 for the length _n, so that they first appear in the emitted code in
\* the order _v0, _v2, _v1; no name is used for two roles.
C22_ForeachNamesListPositionLength ==
    SingleForeach =>
        /\ ForeachNamesDistinct(TheForeachSpan)
        /\ ListVariable(TheForeachSpan) = "_v0"
        /\ PositionVariable(TheForeachSpan) = "_v1"
        /\ LengthVariable(TheForeachSpan) = "_v2"
        /\ 0 < FirstUse("_v0") /\ FirstUse("_v0") < FirstUse("_v2")
        /\ FirstUse("_v2") < FirstUse("_v1")

\* a single foreach over two elements has run to its end: each of its names
\* has been in use
C22_Witness ==
    /\ SingleForeach /\ machine.status = "returned"
    /\ \E e \in Entries(TheForeachSpan) :
            Cardinality(ForeachBodyRuns(TheForeachSpan, e)) = 2
    /\ \E k \in 1..Len(History) :
            {"_v0", "_v1", "_v2", TheForeach.index.value} \subseteq DOMAIN History[k].locals

\* C22 (as stated): compiling a single foreach statement on a fresh compiler
\* uses label _l0 for the loop start and _l1 for the loop end, and its
\* synthetic variables first appear in the emitted code in the order _v0,
\* _v1, _v2 (_v0 holding the list, _v1 the length _n, _v2 the position _pos),
\* with no name used for two roles.
C22_ForeachNamesListLengthPosition ==
    SingleForeach =>
        /\ ForeachNamesDistinct(TheForeachSpan)
        /\ ListVariable(TheForeachSpan) = "_v0"
        /\ LengthVariable(TheForeachSpan) = "_v1"
        /\ PositionVariable(TheForeachSpan) = "_v2"
        /\ 0 < FirstUse("_v0") /\ FirstUse("_v0") < FirstUse("_v1")
        /\ FirstUse("_v1") < FirstUse("_v2")

\* the spans of the branches of an if: the else-branch ends before the Label
\* that ends the statement, the then-branch before that Label or, when there
\* is an else, before the Jump and the Label that precede the else-branch
ElseBlock(span) ==
    CHOOSE block \in SpansOf("N_StmtBlock") :
        block.node = span.node.elseBlock /\ block.to = span.to - 1
ThenBlock(span) ==
    CHOOSE block \in SpansOf("N_StmtBlock") :
        /\ block.node = span.node.thenBlock /\ block.from >= span.from + 2
        /\ block.to = (IF span.node.elseBlock = Null THEN span.to - 1
                       ELSE ElseBlock(span).from - 2)

\* the positions, in the execution of a statement entered at e, where the
\* given instruction has been executed
VisitsOf(span, e, ip) ==
    {k \in e..Last(span, e) : k <= Len(machine.log) /\ History[k].ip = ip}

\* the value is the boolean
IsBoolean(value, b) ==
    value.tag = "V_Structure" /\ value._typeName = i18n("TYPE:Bool")
        /\ value._constructorName = (IF b THEN "True" ELSE "False")

\* control is in the code of the then-branch (with the Jump that follows it
\* when there is an else), or of the else-branch, at position k
InThen(span, k) ==
    /\ History[k].ip >= ThenBlock(span).from
    /\ History[k].ip < (IF span.node.elseBlock = Null THEN ThenBlock(span).to
                        ELSE ThenBlock(span).to + 1)
InElse(span, k) ==
    /\ span.node.elseBlock # Null
    /\ History[k].ip >= ElseBlock(span).from /\ History[k].ip < ElseBlock(span).to

\* the expression holds no variable, call of a user's function, range or
\* update: Denotes is its value
Closed(expression) ==
    \A node \in Nodes(expression) :
        /\ node.tag \notin {"N_ExprVariable", "N_ExprRange", "N_ExprStructureUpdate"}
        /\ node.tag = "N_ExprFunctionCall" => node.functionName.value \in {">", "<", "+", "-"}

\* the execution of an if entered at e: the condition is evaluated and
\* type-checked at most once, the branch is taken right after the check, on
\* the checked value, which is the value of the condition; on True control
\* goes through the then-branch only, on False through the else-branch only,
\* and it leaves through the end of the statement
IfRunsOneBranch(span, e) ==
    LET check == ThenBlock(span).from - 2
        jump == ThenBlock(span).from - 1
        last == Last(span, e)
    IN  /\ machine.code[check].op = "TypeCheck"
        /\ machine.code[check].type = TypeStructure(i18n("TYPE:Bool"), EmptyObject)
        /\ machine.code[jump].op = "JumpIfFalse"
        /\ Cardinality(VisitsOf(span, e, span.from)) <= 1
        /\ Cardinality(VisitsOf(span, e, check)) <= 1
        /\ Cardinality(VisitsOf(span, e, jump)) <= 1
        /\ \A k \in VisitsOf(span, e, jump) :
                /\ History[k - 1].ip = check /\ k - 1 >= e
                /\ History[k].stack = History[k - 1].stack
                /\ Closed(span.node.condition)
                        => Top(History[k].stack) = Denotes(span.node.condition)
                /\ IsBoolean(Top(History[k].stack), TRUE)
                    \/ IsBoolean(Top(History[k].stack), FALSE)
                /\ k < last =>
                    IF IsBoolean(Top(History[k].stack), TRUE)
                    THEN /\ History[k + 1].ip = ThenBlock(span).from
                         /\ \A l \in (k + 1)..last : ~InElse(span, l)
                    ELSE /\ History[k + 1].ip = ThenBlock(span).to +
                                (IF span.node.elseBlock = Null THEN 0 ELSE 1)
                         /\ machine.code[History[k + 1].ip].op = "Label"
                         /\ \A l \in (k + 1)..last : ~InThen(span, l)
                         /\ (span.node.elseBlock # Null /\ k + 1 < last)
                                => History[k + 2].ip = ElseBlock(span).from
        /\ \A k \in e..last :
                (InThen(span, k) \/ InElse(span, k)) => VisitsOf(span, e, jump) # {}
        /\ Exit(span, e) # 0 =>
                /\ History[Exit(span, e)].ip = span.to
                /\ VisitsOf(span, e, jump) # {}

\* C23: the code emitted for an if statement evaluates the condition once,
\* type-checks it as Bool before branching, and then executes exactly one
\* branch: the then-branch when the condition is True, and the else-branch
\* (or nothing, when there is no else) when it is False; after the
\* then-branch control continues after the else-branch without executing it.
C23_IfRunsExactlyOneBranch ==
    machine.kind = "program" =>
        \A span \in SpansOf("N_StmtIf") : \A e \in Entries(span) :
            IfRunsOneBranch(span, e)

\* a program has returned after an if with an else-branch, on a condition
\* that is True, went through its then-branch and left at its end
C23_Witness ==
    /\ machine.kind = "program" /\ machine.status = "returned"
    /\ \E span \in SpansOf("N_StmtIf") : \E e \in Entries(span) :
        /\ span.node.elseBlock # Null /\ ElseBlock(span).from < ElseBlock(span).to
        /\ Exit(span, e) # 0
        /\ \E k \in VisitsOf(span, e, ThenBlock(span).from - 1) :
                IsBoolean(Top(History[k].stack), TRUE)
        /\ \E k \in e..Last(span, e) :
                InThen(span, k) /\ machine.code[History[k].ip].op = "SetVariable"
    /\ "taken" \in DOMAIN machine.locals
    /\ machine.locals["taken"] = ValueIntegerOfNumber(1)

\* the span of the body of a while: the Jump back and the Label that ends the
\* loop follow it
WhileBody(span) ==
    CHOOSE block \in SpansOf("N_StmtBlock") :
        /\ block.node = span.node.body /\ block.to = span.to - 2
        /\ block.from >= span.from + 3

\* the execution of a while entered at e: each evaluation of the condition
\* starts at the Label of the loop and ends with the TypeCheck and the
\* JumpIfFalse on the checked Bool; on True control enters the body, after
\* which it is back at the Label; on the first False it goes to the end Label
\* and leaves the loop there; the body is never entered otherwise
WhileRuns(span, e) ==
    LET start == span.from
        check == WhileBody(span).from - 2
        jump == WhileBody(span).from - 1
        last == Last(span, e)
        jumps == VisitsOf(span, e, jump)
    IN  /\ machine.code[start].op = "Label"
        /\ machine.code[check].op = "TypeCheck"
        /\ machine.code[check].type = TypeStructure(i18n("TYPE:Bool"), EmptyObject)
        /\ machine.code[jump].op = "JumpIfFalse"
        /\ \A k \in jumps :
                /\ k - 1 >= e /\ History[k - 1].ip = check
                /\ History[k].stack = History[k - 1].stack
                /\ Closed(span.node.condition)
                        => Top(History[k].stack) = Denotes(span.node.condition)
                /\ IsBoolean(Top(History[k].stack), TRUE)
                    \/ IsBoolean(Top(History[k].stack), FALSE)
                /\ Cardinality({s \in VisitsOf(span, e, start) : s < k})
                        = Cardinality({j \in jumps : j <= k})
                /\ \A j \in jumps : j < k => IsBoolean(Top(History[j].stack), TRUE)
                /\ k < last =>
                    IF IsBoolean(Top(History[k].stack), TRUE)
                    THEN History[k + 1].ip = WhileBody(span).from
                    ELSE /\ History[k + 1].ip = span.to - 1
                         /\ last = k + 1
        /\ \A k \in e..last :
                (History[k].ip >= WhileBody(span).from /\ History[k].ip < span.to - 1)
                    => /\ \E j \in jumps : j < k
                       /\ \A j \in jumps : j < k => IsBoolean(Top(History[j].stack), TRUE)
        /\ \A k \in VisitsOf(span, e, span.to - 2) :
                k < last => History[k + 1].ip = start
        /\ Exit(span, e) # 0 =>
                /\ History[Exit(span, e)].ip = span.to
                /\ History[Exit(span, e) - 1].ip = span.to - 1
                /\ History[Exit(span, e) - 2].ip = jump
                /\ IsBoolean(Top(History[Exit(span, e) - 2].stack), FALSE)

\* the times the body of the while has been entered in the execution from e
WhileBodyRuns(span, e) ==
    {k \in VisitsOf(span, e, WhileBody(span).from - 1) :
        k < Last(span, e) /\ History[k + 1].ip = WhileBody(span).from}

\* C24: the code emitted for a while statement re-evaluates the condition and
\* type-checks it as Bool before every iteration, executes the body only
\* after the condition evaluated to True, and leaves the loop the first time
\* the condition evaluates to False, continuing at the instruction after the
\* loop's end label.
C24_WhileChecksBeforeEveryIteration ==
    machine.kind = "program" =>
        \A span \in SpansOf("N_StmtWhile") : \A e \in Entries(span) :
            WhileRuns(span, e)

\* a program has returned after a while ran its body twice, the condition
\* having been evaluated three times, and left at its end
C24_Witness ==
    /\ machine.kind = "program" /\ machine.status = "returned"
    /\ \E span \in SpansOf("N_StmtWhile") : \E e \in Entries(span) :
        /\ Exit(span, e) # 0
        /\ Cardinality(WhileBodyRuns(span, e)) = 2
        /\ Cardinality(VisitsOf(span, e, WhileBody(span).from - 2)) = 3
        /\ WhileBody(span).from < WhileBody(span).to

(***************************************************************************)
(* The instructions emitted for a statement or an expression (claims C25,  *)
(* C26), read from the Code of a call of compile and the parts the call    *)
(* produced.                                                               *)
(***************************************************************************)
\* the parts of the Code the call c produced for nodes with the given tag
PartsOf(c, tag) ==
    {calls[c].marks[k] : k \in {i \in 1..Len(calls[c].marks) :
        calls[c].marks[i].tag = tag}}

\* the call c produced the part [from, to) for the expression
ProducedFor(c, expression, from, to) ==
    \E k \in 1..Len(calls[c].marks) :
        /\ calls[c].marks[k].kind = "expression"
        /\ calls[c].marks[k].node = expression
        /\ calls[c].marks[k].from = from /\ calls[c].marks[k].to = to

\* the part is the code of an assignment to a tuple of k names: the code of
\* the value, the TypeCheck, a read and a SetVariable per name, and the Pop
AssignTupleLayout(c, part) ==
    LET k == Len(part.node.variables)
        code == calls[c].instructions
        check == part.to - 2 * k - 2
    IN  /\ check >= part.from
        /\ ProducedFor(c, part.node.value, part.from, check)
        /\ code[check].op = "TypeCheck"
        /\ code[check].type = TypeTuple([i \in 1..k |-> TypeAny])
        /\ \A i \in 0..(k - 1) :
                /\ code[check + 1 + 2 * i].op = "ReadTupleComponent"
                /\ code[check + 1 + 2 * i].index = i
                /\ code[check + 2 + 2 * i].op = "SetVariable"
                /\ code[check + 2 + 2 * i].variableName = part.node.variables[i + 1].value
        /\ code[part.to - 1].op = "Pop"
        /\ \A j \in check..(part.to - 1) :
                code[j].op = "ReadTupleComponent" => code[j].index < k

\* C25: an assignment to a tuple of k names emits the code of the value, one
\* TypeCheck for a tuple of exactly k components of type Any, then for each i
\* from 0 to k-1 a ReadTupleComponent(i) followed by SetVariable of the i-th
\* name, and one final Pop; no component index equal to or above k is read.
C25_AssignTupleReadsEachComponent ==
    \A c \in Returned : \A part \in PartsOf(c, "N_StmtAssignTuple") :
        AssignTupleLayout(c, part)

\* compile has returned the code of assignments to a tuple of two names, of
\* a pair, and to a tuple of three names
C25_Witness ==
    \E c, d \in Returned :
        /\ \E part \in PartsOf(c, "N_StmtAssignTuple") :
                Len(part.node.variables) = 2 /\ part.node.value.tag = "N_ExprTuple"
        /\ \E part \in PartsOf(d, "N_StmtAssignTuple") : Len(part.node.variables) = 3

\* the operands of a list, tuple or structure expression or of a call, in
\* source order
OperandsOf(node) ==
    CASE node.tag \in {"N_ExprList", "N_ExprTuple"} -> node.elements
      [] node.tag = "N_ExprStructure" ->
            [i \in 1..Len(node.fieldBindings) |-> node.fieldBindings[i].value]
      [] node.tag \in {"N_ExprFunctionCall", "N_StmtProcedureCall"} -> node.args

\* the call c produced [from, to) as the parts of the operands, one after the
\* other in their order
RECURSIVE OperandsAt(_, _, _, _)
OperandsAt(c, operands, from, to) ==
    IF operands = <<>> THEN from = to
    ELSE \E mid \in from..to :
            /\ ProducedFor(c, Head(operands), from, mid)
            /\ OperandsAt(c, Tail(operands), mid, to)

\* the instruction that follows the operands of the node is the one that
\* takes them all
TakesOperands(instruction, node) ==
    LET n == Len(OperandsOf(node)) IN
    CASE node.tag = "N_ExprList" -> instruction.op = "MakeList" /\ instruction.size = n
      [] node.tag = "N_ExprTuple" -> instruction.op = "MakeTuple" /\ instruction.size = n
      [] node.tag = "N_ExprStructure" ->
            /\ instruction.op = "MakeStructure"
            /\ instruction.constructorName = node.constructorName.value
            /\ Len(instruction.fieldNames) = n
            /\ \A i \in 1..n :
                    instruction.fieldNames[i] = node.fieldBindings[i].fieldName.value
      [] node.tag = "N_ExprFunctionCall" ->
            /\ instruction.op = "PrimitiveCall"
            /\ instruction.primitiveName = node.functionName.value
            /\ instruction.nargs = n
      [] node.tag = "N_StmtProcedureCall" ->
            /\ instruction.op = "PrimitiveCall"
            /\ instruction.primitiveName = node.procedureName.value
            /\ instruction.nargs = n

OperandTags ==
    {"N_ExprList", "N_ExprTuple", "N_ExprStructure", "N_ExprFunctionCall",
     "N_StmtProcedureCall"}

\* C26: for list, tuple and structure expressions and for calls to primitive
\* procedures and functions with n operands, the code of the operands is
\* emitted in source (left-to-right) order and is followed by exactly one
\* instruction whose count is n: MakeList(n), MakeTuple(n), MakeStructure
\* with the n field names in the same order as their values, or
\* PrimitiveCall(name, n).
C26_OperandsInOrderThenOneInstruction ==
    \A c \in Returned : \A tag \in OperandTags : \A part \in PartsOf(c, tag) :
        /\ part.to > part.from
        /\ OperandsAt(c, OperandsOf(part.node), part.from, part.to - 1)
        /\ TakesOperands(calls[c].instructions[part.to - 1], part.node)

\* compile has returned the code of a list of three elements and of a call
\* of a primitive function on two arguments, the first of them a call
C26_Witness ==
    \E c, d \in Returned :
        /\ \E part \in PartsOf(c, "N_ExprList") :
                /\ Len(part.node.elements) = 3
                /\ part.to - part.from = 4
                /\ Cardinality({part.node.elements[i] : i \in 1..3}) = 3
        /\ \E part \in PartsOf(d, "N_ExprFunctionCall") :
                /\ Len(part.node.args) = 2
                /\ part.node.args[1].tag = "N_ExprFunctionCall"
                /\ part.node.args[2].tag # "N_ExprFunctionCall"

\* the spans of the statements of the program that runs
StatementSpans ==
    {machine.marks[k] : k \in {i \in 1..Len(machine.marks) :
        machine.marks[i].kind = "statement"}}

\* C27: whenever execution enters or leaves the code emitted for a statement,
\* the local stack is empty (after a return statement it holds exactly one
\* value); this holds for every statement of a program, including statements
\* nested in the body of an if, while, repeat, foreach or switch branch.
C27_StackEmptyBetweenStatements ==
    machine.kind = "program" =>
        \A span \in StatementSpans : \A e \in Entries(span) :
            /\ History[e].stack = <<>>
            /\ Exit(span, e) # 0 =>
                    Len(History[Exit(span, e)].stack)
                        = (IF LeavesResult(span.node) THEN 1 ELSE 0)

(***************************************************************************)
(* The tables of the symbol table after a call that raised, and their      *)
(* agreement with each other (claims C28 and C29).                         *)
(***************************************************************************)
\* the syntax errors of the five definition operations
DefinitionErrors ==
    SyntaxErrors \cup {GbsSyntaxError("errmsg:program-already-defined"),
                       GbsSyntaxError("errmsg:procedure-already-defined")}

\* C28: a definition operation of the symbol table (defProgram,
\* defInteractiveProgram, defProcedure, defFunction, defType) that raises a
\* syntax error leaves every table of the symbol table (program, procedures,
\* functions, types, type constructors, constructors, constructor types,
\* constructor fields, fields) exactly as it was before the call.
C28_RaisingDefinitionLeavesTables ==
    (probe.fn = "symtable" /\ probe.thrown \in DefinitionErrors) =>
        table = probe.before

\* the tables of the symbol table t agree: every field descriptor names a
\* constructor of its type that has the field at its index, every declared
\* constructor has a type and a field list, every defined type a
\* constructor list
TablesAgree(t) ==
    /\ \A f \in DOMAIN t._fields : \A i \in 1..Len(t._fields[f]) :
            LET descriptor == t._fields[f][i] IN
            /\ descriptor.constructorName \in DOMAIN t._constructorType
            /\ t._constructorType[descriptor.constructorName] = descriptor.typeName
            /\ descriptor.constructorName \in DOMAIN t._constructorFields
            /\ descriptor.index + 1 \in
                    DOMAIN t._constructorFields[descriptor.constructorName]
            /\ t._constructorFields[descriptor.constructorName][descriptor.index + 1] = f
    /\ \A constructorName \in DOMAIN t._constructors :
            /\ constructorName \in DOMAIN t._constructorType
            /\ constructorName \in DOMAIN t._constructorFields
    /\ \A typeName \in DOMAIN t._types : typeName \in DOMAIN t._typeConstructors

\* C29: after any sequence of symbol-table definition operations, including
\* ones that raise, for every field name f and every descriptor (typeName,
\* constructorName, index) recorded for f, constructorType(constructorName)
\* is typeName and constructorFields(constructorName)[index] is f; and every
\* constructor that has a declaration also has a type and a field list, and
\* every defined type has a constructor list.
C29_TablesAgreeAfterAnyCalls ==
    probe.fn = "symtable" => TablesAgree(table)

(***************************************************************************)
(* The type of a list (value.js: the constructor of ValueList and its      *)
(* _inferType).  A list is constructed from its elements, and once more    *)
(* from the same elements in another order.                                *)
(***************************************************************************)
\* the longest list constructed
MaxElements == 3

\* the values lists are made of
One == ValueIntegerOfNumber(1)
ListElements ==
    {One, ValueString("s"), ValueTuple(<<One, One>>), ValueList(<<>>),
     ValueList(<<One>>), ValueBoolean(TRUE),
     ValueStructure("A", "B", EmptyObject), ValueStructure("A", "C", EmptyObject),
     ValueStructure("A", "B", "x" :> One)}

RECURSIVE ElementLists(_)
ElementLists(length) ==
    IF length = 0 THEN {<<>>}
    ELSE ElementLists(length - 1)
         \cup {Append(l, element) :
                l \in {x \in ElementLists(length - 1) : Len(x) = length - 1},
                element \in ListElements}

\* the orders of n elements
Orders(n) == {order \in [1..n -> 1..n] : \A i, j \in 1..n : order[i] = order[j] => i = j}

InitList ==
    /\ heap = << <<>> >>
    /\ compiler = NewCompiler(LintedSymbolTable, 1)
    /\ calls = <<>>
    /\ vm = IdleVM
    /\ machine = IdleMachine
    /\ table = NewSymbolTable
    /\ probe \in {[fn |-> "ValueList", elements |-> elements, other |-> elements,
                    constructed |-> FALSE, type |-> Return(Null),
                    otherType |-> Return(Null)] :
                        elements \in ElementLists(MaxElements)}

\* new ValueList(probe.elements) and new ValueList(the elements in the given
\* order) have returned or raised; type is what the field _type holds
NewValueList ==
    /\ probe.fn = "ValueList" /\ ~probe.constructed
    /\ \E order \in Orders(Len(probe.elements)) :
        LET other == [i \in 1..Len(probe.elements) |-> probe.elements[order[i]]]
        IN  probe' = [probe EXCEPT !.constructed = TRUE, !.other = other,
                                   !.type = ValueList_inferType(probe.elements),
                                   !.otherType = ValueList_inferType(other)]
    /\ UNCHANGED <<heap, compiler, calls, vm, table, machine>>

NextList == NewValueList
SpecList == InitList /\ [][NextList]_vars

\* C30: the type of a ValueList is List(t) where t is the join of the types
\* of all its elements (Any for the empty list), independent of the order of
\* the elements; the content type of a constructed ValueList is always a type
\* and never null.
C30_ListTypeIsJoinOfElementTypes ==
    (probe.fn = "ValueList" /\ probe.constructed) =>
        /\ probe.type.thrown = NoError
        /\ probe.type.value.tag = "List"
        /\ probe.type.value.contentType # Null
        /\ \A i \in 1..Len(probe.elements) :
                Instantiates(probe.type.value.contentType, Value_type(probe.elements[i]))
        /\ probe.elements = <<>> => probe.type.value.contentType = TypeAny
        /\ Len(probe.elements) = 1 =>
                probe.type.value.contentType = Value_type(probe.elements[1])
        /\ probe.otherType = probe.type

====
